---- MODULE Spec2Model ----
(***************************************************************************)
(* NoteTweet: the multi-account connection manager and thread poster of    *)
(* TwitterHandler, the account list of the plugin's settings, and the      *)
(* text segmenter of the composer modal, and the parsers of the plugin's   *)
(* commands, as state machines.                                            *)
(*                                                                         *)
(* Every await of the TypeScript source is a suspension point: a call is   *)
(* a frame with a position (pc), and one action runs the code between two  *)
(* awaits.  The host invokes one command at a time, so Spec starts a call  *)
(* only when no other call is in flight.                                   *)
(***************************************************************************)
EXTENDS Integers, Sequences, FiniteSets, TLC

VARIABLES
  accounts,           \* settings.accounts, the ids in list order
  lastUsedAccountId,  \* settings.lastUsedAccountId
  account,            \* the TwitterAccount objects, by id
  connections,        \* TwitterHandler.connections
  currentAccountId,   \* TwitterHandler.currentAccountId
  persisted,          \* the settings last handed to saveData
  frame,              \* the calls in flight, one frame per caller
  segInput,           \* the text given to the composer's textInputHandler
  segAutoSplit,       \* autoSplitTweets of the composer's selected account
  segOutput,          \* what textInputHandler produced for segInput
  parseOutput         \* what a parser or the composition made of the text segInput

vars == << accounts, lastUsedAccountId, account, connections, currentAccountId,
           persisted, frame,
           segInput, segAutoSplit, segOutput, parseOutput >>

handlerVars == << accounts, lastUsedAccountId, account, connections,
                  currentAccountId, persisted, frame >>

segVars == << segInput, segAutoSplit, segOutput, parseOutput >>

----------------------------------------------------------------------------
(* Bounds of the model. *)

NumAccounts == 2        \* account objects that can ever be created
MaxSegs == 2            \* segments of one thread
MaxUploads == 3         \* media uploads one postThread call may start
MaxStackDepth == 3      \* nested textInputHandler calls before the engine's stack is exhausted
MaxLines == 3           \* lines of a segmenter input

AccountIds == 1 .. NumAccounts
\* The handlers run on the one thread of the host, one command at a time: a
\* single call frame.
Procs == { 1 }

\* The empty lastUsedAccountId of DEFAULT_SETTINGS, and the null
\* currentAccountId; both are falsy where the code tests them.
NoAccount == 0

----------------------------------------------------------------------------
(* Failures thrown by the collaborators, and extractErrorMessage. *)

\* A rejection value: the fields extractErrorMessage looks at.  An empty
\* field is an absent (falsy) one.
Err(message, detail, error, str) ==
  [rejected |-> TRUE, message |-> message, detail |-> detail, error |-> error,
   str |-> str]

\* The answer of a call that did not reject
NoError ==
  [rejected |-> FALSE, message |-> "", detail |-> "", error |-> "", str |-> ""]

\* What me() and tweetThread reject with: a response error with a detail and
\* an error field, and an object with none of the fields.
Errors ==
  { Err("", "Too Many Requests", "rate", ""),
    Err("", "", "", "") }

\* new TwitterApi() refusing blank consumer tokens
ClientError == Err("Invalid consumer tokens", "", "", "")

\* file.vault of an unresolved link
TypeError == Err("Cannot read properties of null", "", "", "")

Undefined == ""

extractErrorMessage(error) ==
  IF error.message # "" THEN error.message
  ELSE IF error.detail # "" THEN error.detail
  ELSE IF error.error # "" THEN error.error
  ELSE IF error.str # "" THEN error.str
  ELSE "Unknown error occurred"

----------------------------------------------------------------------------
(* The settings: accounts and their objects. *)

\* An id no account object was created for yet.
NoObject ==
  [creds |-> "none", connectionStatus |-> "untested",
   lastConnectionTest |-> "undefined", lastError |-> Undefined,
   autoSplitTweets |-> TRUE]

\* createAccount: a new account is untested, with no test time and no error.
createAccount(creds) ==
  [creds |-> creds, connectionStatus |-> "untested",
   lastConnectionTest |-> "undefined", lastError |-> Undefined,
   autoSplitTweets |-> TRUE]

InList(accs, id) == \E i \in 1 .. Len(accs) : accs[i] = id

getAccountById(id) == IF InList(accounts, id) THEN id ELSE NoAccount

\* getCurrentAccount over a given list and last used id
CurrentAccountOf(accs, lastUsed) ==
  IF Len(accs) = 0 THEN NoAccount
  ELSE IF lastUsed # NoAccount /\ InList(accs, lastUsed) THEN lastUsed
  ELSE accs[1]

getCurrentAccount == CurrentAccountOf(accounts, lastUsedAccountId)

\* What saveData(this.settings) is handed: the list, the last used id and the
\* objects of the listed accounts.
SettingsOf(accs, lastUsed, objs) ==
  [accounts |-> accs, lastUsedAccountId |-> lastUsed,
   objects |-> [i \in AccountIds |-> IF InList(accs, i) THEN objs[i] ELSE NoObject]]

----------------------------------------------------------------------------
(* The connection map. *)

NoClient == [owner |-> NoAccount, creds |-> "none"]

\* new TwitterApi({...}) for an account: the session handle
TwitterApi(id, creds) == [owner |-> id, creds |-> creds]

\* No record in the map
NoConnection == [present |-> FALSE, accountId |-> NoAccount, client |-> NoClient,
                 isConnected |-> FALSE]

Connection(id, client, connected) ==
  [present |-> TRUE, accountId |-> id, client |-> client, isConnected |-> connected]

getAccountConnection(id) == connections[id]

getCurrentConnection ==
  IF currentAccountId = NoAccount THEN NoConnection
  ELSE connections[currentAccountId]

isConnectedToTwitter == getCurrentConnection.present /\ getCurrentConnection.isConnected

----------------------------------------------------------------------------
(* Media references: IMAGE_REGEX over a text of tokens.                    *)
(*                                                                         *)
(* A text is a sequence of tokens: "!" and the brackets "[[" and "]]",     *)
(* "n" for a character of the file-name class, ".png" for a dot with one   *)
(* of the extensions (its characters are in the file-name class as well),  *)
(* and "x" for any other character.                                        *)

Tokens == { "x", "!", "[[", "n", ".png", "]]" }

IsNameToken(t) == t \in { "n", ".png" }

\* The end of the longest run of file-name tokens that starts at j
\* (j - 1 when there is none): the greedy [a-zA-Z 0-9-\.]*
RECURSIVE NameRunEnd(_, _)
NameRunEnd(s, j) ==
  IF j <= Len(s) /\ IsNameToken(s[j]) THEN NameRunEnd(s, j + 1) ELSE j - 1

\* \[\[ name \.ext \]\] starting at the bracket at position i
BracketMatchAt(s, i) ==
  /\ i >= 1 /\ i <= Len(s) /\ s[i] = "[["
  /\ LET k == NameRunEnd(s, i + 1)
     IN  /\ k >= i + 1
         /\ s[k] = ".png"
         /\ k + 1 <= Len(s)
         /\ s[k + 1] = "]]"

\* The pattern matches with its first character at position i.
MatchAt(s, i) ==
  \/ BracketMatchAt(s, i)
  \/ i >= 1 /\ i <= Len(s) /\ s[i] = "!" /\ BracketMatchAt(s, i + 1)

\* IMAGE_REGEX.test(s)
IMAGE_REGEX_test(s) == \E i \in 1 .. Len(s) : MatchAt(s, i)

\* IMAGE_REGEX.exec(s), for a text that matches: the regex is not global, so
\* the match is the leftmost one.  fileName is match[1].
IMAGE_REGEX_exec(s) ==
  LET from == CHOOSE i \in 1 .. Len(s) :
                MatchAt(s, i) /\ \A j \in 1 .. (i - 1) : ~MatchAt(s, j)
      open == IF s[from] = "!" THEN from + 1 ELSE from
      last == NameRunEnd(s, open + 1)
  IN  [from |-> from, to |-> last + 1, fileName |-> SubSeq(s, open + 1, last)]

\* s.replace(IMAGE_REGEX, ""): the leftmost match is cut out.
IMAGE_REGEX_replace(s) ==
  IF IMAGE_REGEX_test(s)
  THEN LET m == IMAGE_REGEX_exec(s)
       IN  SubSeq(s, 1, m.from - 1) \o SubSeq(s, m.to + 1, Len(s))
  ELSE s

\* The payload constructTweet returns: the media key is left out when no
\* id was collected, which an empty list stands for.
SendTweetV2Params(text, media_ids) == [text |-> text, media_ids |-> media_ids]

----------------------------------------------------------------------------
(* Call frames. *)

NoResult == [status |-> "pending", kind |-> "", value |-> FALSE,
             account |-> NoAccount, msg |-> "", exn |-> NoError]

Returned(kind, value) ==
  [status |-> "returned", kind |-> kind, value |-> value,
   account |-> NoAccount, msg |-> "", exn |-> NoError]

Thrown(kind, id, msg, exn) ==
  [status |-> "thrown", kind |-> kind, value |-> FALSE,
   account |-> id, msg |-> msg, exn |-> exn]

IdleFrame ==
  [op |-> "none", pc |-> "idle",
   cmd |-> "none",              \* the command of the plugin the call was made by
   notice |-> "",               \* the error modal the command has opened
   posts |-> << >>,             \* deleteTweets' tweets argument, by id
   deletes |-> << >>,           \* the deleteTweet calls of this call, in order
   accountId |-> NoAccount,     \* postThread's accountId argument
   target |-> NoAccount,        \* connectToAccount's account argument
   client |-> NoClient,         \* connectToAccount's client
   verified |-> "none",         \* what me() answered: "ok" or "failed"
   ret |-> FALSE,               \* what connectToAccount is about to return
   startConn |-> NoConnection,  \* the cached record postThread found
   conn |-> NoConnection,       \* the record postThread posts through
   path |-> "none",             \* "live": lines 208-231, "reconnect": lines 194-199
   threadContent |-> << >>,
   idx |-> 0,                   \* the segment constructTweet is working on
   processedTweet |-> << >>,
   media_ids |-> << >>,
   fileName |-> << >>,
   tweets |-> << >>,
   uploads |-> << >>,           \* the uploadMedia calls of this call, in order
   verifies |-> 0,              \* client.v2.me() calls of this call
   submits |-> 0,               \* tweetThread calls of this call
   saves |-> 0,                 \* saveSettings calls of this call
   warnings |-> 0,              \* log.logWarning calls of this call
   submitted |-> << >>,         \* the payload list handed to tweetThread
   exn |-> NoError,             \* the exception the last catch block caught
   result |-> NoResult]

AllIdle == \A q \in Procs : frame[q].pc = "idle"

\* A failure marked without the time of the test
MarkFailedNoStamp(objs, id, e) ==
  [objs EXCEPT ![id].connectionStatus = "failed",
               ![id].lastError = extractErrorMessage(e)]

\* The status fields a failure leaves on an account object.
MarkFailed(objs, id, e) ==
  [objs EXCEPT ![id].connectionStatus = "failed",
               ![id].lastConnectionTest = "timestamp",
               ![id].lastError = extractErrorMessage(e)]

MarkConnectedKeepsError(objs, id) ==
  [objs EXCEPT ![id].connectionStatus = "connected",
               ![id].lastConnectionTest = "timestamp"]

MarkConnected(objs, id) ==
  [objs EXCEPT ![id].connectionStatus = "connected",
               ![id].lastConnectionTest = "timestamp",
               ![id].lastError = Undefined]

\* new TwitterApi() throws on credentials without consumer tokens.
ClientConstructorThrows(obj) == obj.creds = "blank"

\* What client.v2.me() can answer: the identity, or a rejection (credentials
\* the service refuses, or the network).
VerifyOutcomes(client) == { NoError } \cup Errors

----------------------------------------------------------------------------
(* connectToAccount *)

\* connectToAccount from its entry to its first await, for a caller whose
\* frame is f: the client is built and me() is called, or the constructor
\* throws and the outer catch marks the account and saves.
ConnectEnter(p, f, a) ==
  IF ClientConstructorThrows(account[a])
  THEN /\ account' = MarkFailed(account, a, ClientError)
       /\ persisted' = SettingsOf(accounts, lastUsedAccountId, account')
       /\ frame' = [frame EXCEPT ![p] =
            [f EXCEPT !.pc = "save", !.target = a, !.ret = FALSE,
                      !.exn = ClientError, !.saves = @ + 1]]
  ELSE /\ frame' = [frame EXCEPT ![p] =
            [f EXCEPT !.pc = "verify", !.target = a,
                      !.client = TwitterApi(a, account[a].creds),
                      !.verifies = @ + 1]]
       /\ UNCHANGED << account, persisted >>

\* The record a failed verification caches.
FailedConnection(old, id, client) == Connection(id, client, FALSE)

\* A failed verification making its account the current one
CurrentAfterFailureIsTarget(current, target) == target

\* The current account id after a failed verification (lines 92-107 do not
\* assign it)
CurrentAfterFailure(current, target) == current

\* client.v2.me() answers: lines 75-88 on success, lines 92-105 on failure.
VerifyReturn(p, outcome) ==
  LET f == frame[p] IN
  /\ f.pc = "verify"
  /\ outcome \in VerifyOutcomes(f.client)
  /\ IF outcome = NoError
     THEN /\ connections' = [connections EXCEPT
                               ![f.target] = Connection(f.target, f.client, TRUE)]
          /\ currentAccountId' = f.target
          /\ account' = MarkConnected(account, f.target)
          /\ frame' = [frame EXCEPT ![p].pc = "save", ![p].ret = TRUE,
                                    ![p].verified = "ok", ![p].saves = @ + 1]
     ELSE /\ connections' = [connections EXCEPT
                               ![f.target] = FailedConnection(@, f.target, f.client)]
          /\ currentAccountId' = CurrentAfterFailure(currentAccountId, f.target)
          /\ account' = MarkFailed(account, f.target, outcome)
          /\ frame' = [frame EXCEPT ![p].pc = "save", ![p].ret = FALSE,
                                    ![p].verified = "failed", ![p].exn = outcome,
                                    ![p].saves = @ + 1]
  /\ persisted' = SettingsOf(accounts, lastUsedAccountId, account')
  /\ UNCHANGED << accounts, lastUsedAccountId, segVars >>

\* "Test Connection" of the settings tab: connectToAccount(account) for a
\* listed account.
TestConnection(p, a) ==
  /\ AllIdle
  /\ InList(accounts, a)
  /\ ConnectEnter(p, [IdleFrame EXCEPT !.op = "connect"], a)
  /\ UNCHANGED << accounts, lastUsedAccountId, connections, currentAccountId, segVars >>

\* saveSettings is done and connectToAccount returns to the settings tab.
TestConnectionReturn(p) ==
  /\ frame[p].pc = "save"
  /\ frame[p].op = "connect"
  /\ frame' = [frame EXCEPT ![p].pc = "done",
                            ![p].result = Returned("connect", frame[p].ret)]
  /\ UNCHANGED << accounts, lastUsedAccountId, account, connections,
                  currentAccountId, persisted, segVars >>

----------------------------------------------------------------------------
(* The account list: addAccount, removeAccount, setLastUsedAccount, the    *)
(* credential fields of the settings tab, and a restart of the plugin.     *)

\* An account object nothing refers to any more: its id is used up.
Dropped(obj) == IF obj.creds = "none" THEN obj ELSE [NoObject EXCEPT !.creds = "dropped"]

\* The least id no account object was created for.
FreshId == CHOOSE i \in AccountIds :
             account[i].creds = "none" /\ \A j \in 1 .. (i - 1) : account[j].creds # "none"

\* AddAccountModal.handleSubmit up to its await: the credentials are all
\* filled in, the account object is created and connectToAccount is called.
AddAccountSubmit(p, creds) ==
  /\ AllIdle
  /\ creds = "valid"
  /\ \E i \in AccountIds : account[i].creds = "none"
  /\ LET a == FreshId IN
     /\ account' = [account EXCEPT ![a] = createAccount(creds)]
     /\ frame' = [frame EXCEPT ![p] =
          [IdleFrame EXCEPT !.op = "addAccount", !.pc = "verify", !.target = a,
                            !.client = TwitterApi(a, creds), !.verifies = 1]]
  /\ UNCHANGED << accounts, lastUsedAccountId, connections, currentAccountId,
                  persisted, segVars >>

\* addAccount leaving the last used id as it is
addAccountKeepsLastUsed(accs, lastUsed, a) == lastUsed

\* plugin.addAccount: the account is pushed, the first account becomes the
\* last used one, and the settings are saved.
addAccountLastUsed(accs, lastUsed, a) ==
  IF Len(accs) = 0 THEN a ELSE lastUsed

\* connectToAccount returns to handleSubmit: a connected account is added.
AddAccountReturn(p) ==
  LET f == frame[p] IN
  /\ f.pc = "save"
  /\ f.op = "addAccount"
  /\ IF f.ret
     THEN /\ accounts' = Append(accounts, f.target)
          /\ lastUsedAccountId' = addAccountLastUsed(accounts, lastUsedAccountId, f.target)
          /\ persisted' = SettingsOf(accounts', lastUsedAccountId', account)
          /\ account' = account
     ELSE /\ account' = [account EXCEPT ![f.target] = Dropped(@)]
          /\ UNCHANGED << accounts, lastUsedAccountId, persisted >>
  /\ frame' = [frame EXCEPT ![p].pc = "done",
                            ![p].result = Returned("addAccount", f.ret)]
  /\ UNCHANGED << connections, currentAccountId, segVars >>

RECURSIVE Without(_, _)
Without(accs, id) ==
  IF accs = << >> THEN << >>
  ELSE IF Head(accs) = id THEN Tail(accs)
  ELSE << Head(accs) >> \o Without(Tail(accs), id)

\* plugin.removeAccount
removeAccount(a) ==
  /\ AllIdle
  /\ InList(accounts, a)
  /\ accounts' = Without(accounts, a)
  /\ lastUsedAccountId' =
       IF lastUsedAccountId = a
       THEN (IF Len(accounts') > 0 THEN accounts'[1] ELSE NoAccount)
       ELSE lastUsedAccountId
  /\ account' = [account EXCEPT ![a] = Dropped(@)]
  /\ persisted' = SettingsOf(accounts', lastUsedAccountId', account')
  /\ UNCHANGED << connections, currentAccountId, frame, segVars >>

\* plugin.setLastUsedAccount, from the composer's account dropdown
setLastUsedAccount(a) ==
  /\ AllIdle
  /\ getAccountById(a) # NoAccount
  /\ lastUsedAccountId # a
  /\ lastUsedAccountId' = a
  /\ persisted' = SettingsOf(accounts, lastUsedAccountId', account)
  /\ UNCHANGED << accounts, account, connections, currentAccountId, frame, segVars >>

\* A credential field of the settings tab is changed: the account object is
\* updated, and the settings are saved by the timer the field sets (500 ms
\* later, taken here with the change).  "blank": a consumer token is empty.
EditCredential(a, creds) ==
  /\ AllIdle
  /\ InList(accounts, a)
  /\ creds \in { "valid", "blank" }
  /\ account[a].creds # creds
  /\ account' = [account EXCEPT ![a].creds = creds]
  /\ persisted' = SettingsOf(accounts, lastUsedAccountId, account')
  /\ UNCHANGED << accounts, lastUsedAccountId, connections, currentAccountId,
                  frame, segVars >>

\* The plugin is loaded again (restart, or the reload command): loadSettings
\* reads what was saved, a new TwitterHandler has no connection and no
\* current account, and connectToTwitterWithPlainSettings connects the
\* current account, when there is one.
Onload(p) ==
  /\ AllIdle
  /\ accounts' = persisted.accounts
  /\ lastUsedAccountId' = persisted.lastUsedAccountId
  /\ connections' = [i \in AccountIds |-> NoConnection]
  /\ currentAccountId' = NoAccount
  /\ LET loaded == [i \in AccountIds |->
                      IF InList(persisted.accounts, i) THEN persisted.objects[i]
                      ELSE Dropped(account[i])]
         current == CurrentAccountOf(persisted.accounts, persisted.lastUsedAccountId)
     IN  IF current = NoAccount
         THEN /\ account' = loaded
              /\ persisted' = persisted
              /\ frame' = [frame EXCEPT ![p] =
                   [IdleFrame EXCEPT !.op = "plainConnect", !.pc = "done",
                                     !.result = Returned("plainConnect", FALSE)]]
         ELSE IF ClientConstructorThrows(loaded[current])
         THEN /\ account' = MarkFailed(loaded, current, ClientError)
              /\ persisted' = SettingsOf(accounts', lastUsedAccountId', account')
              /\ frame' = [frame EXCEPT ![p] =
                   [IdleFrame EXCEPT !.op = "plainConnect", !.pc = "save",
                                     !.target = current, !.ret = FALSE,
                                     !.exn = ClientError, !.saves = 1]]
         ELSE /\ account' = loaded
              /\ persisted' = persisted
              /\ frame' = [frame EXCEPT ![p] =
                   [IdleFrame EXCEPT !.op = "plainConnect", !.pc = "verify",
                                     !.target = current,
                                     !.client = TwitterApi(current, loaded[current].creds),
                                     !.verifies = 1]]
  /\ UNCHANGED segVars

\* connectToAccount returns to connectToTwitterWithPlainSettings: a
\* connected account becomes the last used one.
PlainConnectReturn(p) ==
  LET f == frame[p] IN
  /\ f.pc = "save"
  /\ f.op = "plainConnect"
  /\ IF f.ret /\ getAccountById(f.target) # NoAccount
     THEN /\ lastUsedAccountId' = f.target
          /\ persisted' = SettingsOf(accounts, lastUsedAccountId', account)
     ELSE UNCHANGED << lastUsedAccountId, persisted >>
  /\ frame' = [frame EXCEPT ![p].pc = "done",
                            ![p].result = Returned("plainConnect", f.ret)]
  /\ UNCHANGED << accounts, account, connections, currentAccountId, segVars >>

----------------------------------------------------------------------------
(* postThread and constructTweet *)

\* The segment texts a thread is made of.
SegmentTexts ==
  { << "n" >>,
    << "n", "!", "[[", "n", ".png", "]]" >>,
    << "[[", "n", ".png", "]]", "x", "!", "[[", ".png", "]]" >> }

Threads == UNION { [1 .. n -> SegmentTexts] : n \in 0 .. MaxSegs }

\* The thread the account and connection handlers are exercised with; the
\* threads with media are posted under MediaSpec.
PlainThreads == { << << "n" >> >> }

Pending == -1    \* an upload that has not answered
NullId == 0      \* uploadMedia answered without an id

ReadErrors == { Err("ENOENT", "", "", "") }
UploadErrors == { Err("", "media too large", "", "") }

SegmentAt(threadContent, i) ==
  IF i >= 1 /\ i <= Len(threadContent) THEN threadContent[i] ELSE << >>

\* The for-loop of postThread over the segments that need no upload (any
\* more): constructTweet returns the payload, it is pushed, and the loop
\* moves to the next segment.
NextSegmentSkips(i) == i + 2

NextSegment(i) == i + 1

RECURSIVE PushResolved(_)
PushResolved(f) ==
  IF f.idx > Len(f.threadContent) \/ IMAGE_REGEX_test(f.processedTweet)
  THEN f
  ELSE PushResolved(
         [f EXCEPT !.tweets = Append(@, SendTweetV2Params(f.processedTweet, f.media_ids)),
                   !.idx = NextSegment(f.idx),
                   !.processedTweet = SegmentAt(f.threadContent, NextSegment(f.idx)),
                   !.media_ids = << >>])

\* postThread from the start of its for-loop (or from an answered upload) to
\* its next await: readBinary of the next matched file, or tweetThread once
\* every segment has its payload.  found: whether getFirstLinkpathDest
\* resolves the matched file name; file.vault of an unresolved one throws.
Construct(f0, found) ==
  LET f == PushResolved(f0) IN
  IF f.idx > Len(f.threadContent)
  THEN [f EXCEPT !.pc = "submit", !.submitted = f.tweets, !.submits = @ + 1]
  ELSE IF found
  THEN [f EXCEPT !.pc = "read", !.fileName = IMAGE_REGEX_exec(f.processedTweet).fileName]
  ELSE [f EXCEPT !.pc = "done",
                 !.result = Thrown("resolve", f.accountId, "", TypeError)]

\* The account postThread looks up for its accountId argument.
PostingAccount(accountId) ==
  IF accountId # NoAccount THEN getAccountById(accountId) ELSE getCurrentAccount

\* The connection postThread looks up for its accountId argument.
PostingConnection(accountId) ==
  IF accountId # NoAccount THEN getAccountConnection(accountId)
  ELSE getCurrentConnection

IsLiveWhenCached(connection) == connection.present

IsLive(connection) == connection.present /\ connection.isConnected

\* postThread from its entry to its first await (lines 169-181 and 208-215),
\* for a caller whose frame f holds the arguments accountId and threadContent.
postThread(p, f, found) ==
  LET connection == PostingConnection(f.accountId)
      a == PostingAccount(f.accountId)
      f0 == [f EXCEPT !.startConn = connection]
  IN  IF IsLive(connection)
      THEN /\ frame' = [frame EXCEPT ![p] =
                Construct([f0 EXCEPT !.path = "live", !.conn = connection,
                                     !.idx = 1,
                                     !.processedTweet = SegmentAt(f.threadContent, 1)],
                          found)]
           /\ UNCHANGED << account, persisted >>
      ELSE IF a # NoAccount
      THEN ConnectEnter(p, f0, a)
      ELSE /\ frame' = [frame EXCEPT ![p] =
                [f0 EXCEPT !.pc = "done",
                           !.result = Thrown("notconnected", f.accountId, "", NoError)]]
           /\ UNCHANGED << account, persisted >>

\* postThread(threadContent, accountId), called when nothing else runs
PostThread(p, threadContent, accountId, found) ==
  /\ AllIdle
  /\ postThread(p, [IdleFrame EXCEPT !.op = "postThread", !.accountId = accountId,
                                     !.threadContent = threadContent],
                found)
  /\ UNCHANGED << accounts, lastUsedAccountId, connections, currentAccountId, segVars >>

\* The message of the error a failed reconnect is reported with
ReconnectErrorMsgGeneric(lastError) == "Unable to connect to Twitter"

ReconnectErrorMsg(lastError) ==
  IF lastError # Undefined THEN lastError ELSE "Unable to connect to Twitter"

\* connectToAccount returns to postThread (lines 183-205).
PostThreadReconnected(p, found) ==
  LET f == frame[p] IN
  /\ f.pc = "save"
  /\ f.op = "postThread"
  /\ LET newConnection == PostingConnection(f.accountId) IN
     frame' = [frame EXCEPT ![p] =
       IF ~f.ret
       THEN [f EXCEPT !.pc = "done",
                      !.result = Thrown("reconnect", f.target,
                                        ReconnectErrorMsg(account[f.target].lastError),
                                        NoError)]
       ELSE IF IsLive(newConnection)
       THEN Construct([f EXCEPT !.path = "reconnect", !.conn = newConnection,
                                !.idx = 1,
                                !.processedTweet = SegmentAt(f.threadContent, 1)],
                      found)
       ELSE [f EXCEPT !.pc = "done",
                      !.result = Thrown("notconnected", f.accountId, "", NoError)]]
  /\ UNCHANGED << accounts, lastUsedAccountId, account, connections,
                  currentAccountId, persisted, segVars >>

\* file.vault.readBinary answers: the bytes go to uploadMedia, or the
\* rejection ends postThread.
ReadReturn(p, outcome) ==
  LET f == frame[p] IN
  /\ f.pc = "read"
  /\ outcome \in { NoError } \cup ReadErrors
  /\ IF outcome = NoError
     THEN /\ Len(f.uploads) < MaxUploads
          /\ frame' = [frame EXCEPT ![p].pc = "upload",
                ![p].uploads = Append(@, [seg |-> f.idx, fileName |-> f.fileName,
                                          id |-> Pending])]
     ELSE frame' = [frame EXCEPT ![p].pc = "done",
                ![p].result = Thrown("read", f.accountId, "", outcome)]
  /\ UNCHANGED << accounts, lastUsedAccountId, account, connections,
                  currentAccountId, persisted, segVars >>

\* The text constructTweet goes on with after an upload that gave no id
\* (lines 312-316 leave it as it is).
AfterNullUpload(processedTweet) == processedTweet

\* The ids constructTweet holds after an upload that gave an id.
PushMediaId(media_ids, media_id) == Append(media_ids, media_id)

\* uploadMedia answers (lines 309-316): an id, nothing, or a rejection.
UploadReturn(p, outcome, found) ==
  LET f == frame[p]
      n == Len(f.uploads)
  IN
  /\ f.pc = "upload"
  /\ outcome \in { "id", "null", "throw" }
  /\ frame' = [frame EXCEPT ![p] =
       IF outcome = "id"
       THEN Construct([f EXCEPT !.uploads[n].id = n,
                                !.media_ids = PushMediaId(@, n),
                                !.processedTweet = IMAGE_REGEX_replace(@)],
                      found)
       ELSE IF outcome = "null"
       THEN Construct([f EXCEPT !.uploads[n].id = NullId,
                                !.warnings = @ + 1,
                                !.processedTweet = AfterNullUpload(@)],
                      found)
       ELSE [f EXCEPT !.pc = "done",
                      !.result = Thrown("upload", f.accountId, "",
                                        CHOOSE e \in UploadErrors : TRUE)]]
  /\ UNCHANGED << accounts, lastUsedAccountId, account, connections,
                  currentAccountId, persisted, segVars >>

\* Whether the tweetThread call of a path is inside the try of lines 214-231.
SubmitIsCaught(path) == path = "live"

\* tweetThread answers: the results, or a rejection, which the catch of the
\* live path records on the account before it is thrown again.
SubmitReturn(p, outcome) ==
  LET f == frame[p]
      a == PostingAccount(f.accountId)
  IN
  /\ f.pc = "submit"
  /\ outcome \in { NoError } \cup Errors
  /\ IF outcome # NoError /\ SubmitIsCaught(f.path) /\ a # NoAccount
     THEN /\ account' = MarkFailed(account, a, outcome)
          /\ persisted' = SettingsOf(accounts, lastUsedAccountId, account')
          /\ frame' = [frame EXCEPT ![p].pc = "postsave", ![p].exn = outcome,
                                    ![p].saves = @ + 1]
     ELSE /\ frame' = [frame EXCEPT ![p].pc = "done",
                ![p].result = IF outcome = NoError THEN Returned("posted", TRUE)
                              ELSE Thrown("posting", f.accountId, "", outcome)]
          /\ UNCHANGED << account, persisted >>
  /\ UNCHANGED << accounts, lastUsedAccountId, connections, currentAccountId, segVars >>

\* saveSettings of the catch block is done: the exception is thrown again.
PostThreadRethrow(p) ==
  LET f == frame[p] IN
  /\ f.pc = "postsave"
  /\ frame' = [frame EXCEPT ![p].pc = "done",
                            ![p].result = Thrown("posting", f.accountId, "", f.exn)]
  /\ UNCHANGED << accounts, lastUsedAccountId, account, connections,
                  currentAccountId, persisted, segVars >>

----------------------------------------------------------------------------
(* postTweet *)

\* postTweet(tweetText, accountId) from its entry to its first await (lines
\* 238-250 and 273-276), for a caller whose frame f holds accountId and, as
\* the one element of threadContent, tweetText.  constructTweet is the method
\* postThread calls.
postTweet(p, f, found) ==
  LET connection == IF f.accountId # NoAccount THEN getAccountConnection(f.accountId)
                    ELSE getCurrentConnection
      a == IF f.accountId # NoAccount THEN getAccountById(f.accountId)
           ELSE getCurrentAccount
      f0 == [f EXCEPT !.startConn = connection]
  IN  IF connection.present /\ connection.isConnected
      THEN /\ frame' = [frame EXCEPT ![p] =
                Construct([f0 EXCEPT !.path = "live", !.conn = connection, !.idx = 1,
                                     !.processedTweet = SegmentAt(f.threadContent, 1)],
                          found)]
           /\ UNCHANGED << account, persisted >>
      ELSE IF a # NoAccount
      THEN ConnectEnter(p, f0, a)
      ELSE /\ frame' = [frame EXCEPT ![p] =
                [f0 EXCEPT !.pc = "done",
                           !.result = Thrown("notconnected", f.accountId, "", NoError)]]
           /\ UNCHANGED << account, persisted >>

\* connectToAccount returns to postTweet (lines 252-270).
PostTweetReconnected(p, found) ==
  LET f == frame[p] IN
  /\ f.pc = "save"
  /\ f.op = "postTweet"
  /\ f.cmd = "none"
  /\ LET newConnection == IF f.accountId # NoAccount THEN getAccountConnection(f.accountId)
                          ELSE getCurrentConnection
     IN
     frame' = [frame EXCEPT ![p] =
       IF ~f.ret
       THEN [f EXCEPT !.pc = "done",
                      !.result = Thrown("reconnect", f.target,
                                        IF account[f.target].lastError # Undefined
                                        THEN account[f.target].lastError
                                        ELSE "Unable to connect to Twitter",
                                        NoError)]
       ELSE IF newConnection.present /\ newConnection.isConnected
       THEN Construct([f EXCEPT !.path = "reconnect", !.conn = newConnection, !.idx = 1,
                                !.processedTweet = SegmentAt(f.threadContent, 1)],
                      found)
       ELSE [f EXCEPT !.pc = "done",
                      !.result = Thrown("notconnected", f.accountId, "", NoError)]]
  /\ UNCHANGED << accounts, lastUsedAccountId, account, connections,
                  currentAccountId, persisted, segVars >>

\* The tweet() call of a path taken for one outside the try of lines 275-292
TweetIsNeverCaught(path) == FALSE

\* Whether the tweet() call of a path is inside the try of lines 275-292.
TweetIsCaught(path) == path = "live"

\* tweet() answers a frame of postTweet whose payload is built ("submit"): the
\* result, or a rejection, which the catch of the live path records on the
\* account before it is thrown again.
TweetReturn(p, outcome) ==
  LET f == frame[p]
      a == IF f.accountId # NoAccount THEN getAccountById(f.accountId)
           ELSE getCurrentAccount
  IN
  /\ f.pc = "submit"
  /\ f.op = "postTweet"
  /\ outcome \in { NoError } \cup Errors
  /\ IF outcome # NoError /\ TweetIsCaught(f.path) /\ a # NoAccount
     THEN /\ account' = MarkFailed(account, a, outcome)
          /\ persisted' = SettingsOf(accounts, lastUsedAccountId, account')
          /\ frame' = [frame EXCEPT ![p].pc = "postsave", ![p].exn = outcome,
                                    ![p].saves = @ + 1]
     ELSE /\ frame' = [frame EXCEPT ![p].pc = "done",
                ![p].result = IF outcome = NoError THEN Returned("posted", TRUE)
                              ELSE Thrown("posting", f.accountId, "", outcome)]
          /\ UNCHANGED << account, persisted >>
  /\ UNCHANGED << accounts, lastUsedAccountId, connections, currentAccountId, segVars >>

\* The caller has taken the outcome of a finished call.
Finish(p) ==
  /\ frame[p].pc = "done"
  /\ frame' = [frame EXCEPT ![p] = IdleFrame]
  /\ UNCHANGED << accounts, lastUsedAccountId, account, connections,
                  currentAccountId, persisted, segVars >>

----------------------------------------------------------------------------
(* The handler's specification. *)

NoOutput == [status |-> "none", chunks |-> << >>]

\* No parser has run.
NoParse == [op |-> "none", status |-> "none", chunks |-> << >>]

Init ==
  /\ accounts = << >>
  /\ lastUsedAccountId = NoAccount
  /\ account = [i \in AccountIds |-> NoObject]
  /\ connections = [i \in AccountIds |-> NoConnection]
  /\ currentAccountId = NoAccount
  /\ persisted = SettingsOf(<< >>, NoAccount, [i \in AccountIds |-> NoObject])
  /\ frame = [p \in Procs |-> IdleFrame]
  /\ segInput = << >>
  /\ segAutoSplit = TRUE
  /\ segOutput = NoOutput
  /\ parseOutput = NoParse

Next ==
  \/ \E p \in Procs : AddAccountSubmit(p, "valid")
  \/ \E p \in Procs : AddAccountReturn(p)
  \/ \E a \in AccountIds : removeAccount(a)
  \/ \E a \in AccountIds : setLastUsedAccount(a)
  \/ \E a \in AccountIds, creds \in { "valid", "blank" } : EditCredential(a, creds)
  \/ \E p \in Procs : Onload(p)
  \/ \E p \in Procs : PlainConnectReturn(p)
  \/ \E p \in Procs, a \in AccountIds : TestConnection(p, a)
  \/ \E p \in Procs : TestConnectionReturn(p)
  \/ \E p \in Procs, outcome \in { NoError } \cup Errors : VerifyReturn(p, outcome)
  \/ \E p \in Procs, t \in PlainThreads, a \in AccountIds \cup { NoAccount }, found \in BOOLEAN :
        PostThread(p, t, a, found)
  \/ \E p \in Procs, found \in BOOLEAN : PostThreadReconnected(p, found)
  \/ \E p \in Procs, outcome \in { NoError } \cup Errors : SubmitReturn(p, outcome)
  \/ \E p \in Procs : PostThreadRethrow(p)
  \/ \E p \in Procs : Finish(p)

Spec == Init /\ [][Next]_vars

----------------------------------------------------------------------------
(* Posting threads with media: the handler with every account added and   *)
(* connected.                                                              *)

\* The state after the accounts were added one after the other, each
\* verified: the first is the last used one (addAccount), the last the
\* handler's current one (connectToAccount).
MediaInit ==
  /\ accounts = [i \in AccountIds |-> i]
  /\ lastUsedAccountId = 1
  /\ account = [i \in AccountIds |->
                  MarkConnected([j \in AccountIds |-> createAccount("valid")], i)[i]]
  /\ connections = [i \in AccountIds |-> Connection(i, TwitterApi(i, "valid"), TRUE)]
  /\ currentAccountId = NumAccounts
  /\ persisted = SettingsOf(accounts, lastUsedAccountId, account)
  /\ frame = [p \in Procs |-> IdleFrame]
  /\ segInput = << >>
  /\ segAutoSplit = TRUE
  /\ segOutput = NoOutput
  /\ parseOutput = NoParse

MediaNext ==
  \/ \E p \in Procs : Onload(p)
  \/ \E p \in Procs : PlainConnectReturn(p)
  \/ \E p \in Procs, outcome \in { NoError } \cup Errors : VerifyReturn(p, outcome)
  \/ \E p \in Procs, t \in Threads, a \in { 1, NumAccounts, NoAccount }, found \in BOOLEAN :
        PostThread(p, t, a, found)
  \/ \E p \in Procs, found \in BOOLEAN : PostThreadReconnected(p, found)
  \/ \E p \in Procs, outcome \in { NoError } \cup ReadErrors : ReadReturn(p, outcome)
  \/ \E p \in Procs, outcome \in { "id", "null", "throw" }, found \in BOOLEAN :
        UploadReturn(p, outcome, found)
  \/ \E p \in Procs, outcome \in { NoError } \cup Errors : SubmitReturn(p, outcome)
  \/ \E p \in Procs : PostThreadRethrow(p)
  \/ \E p \in Procs : Finish(p)

MediaSpec == MediaInit /\ [][MediaNext]_vars

----------------------------------------------------------------------------
(* The composer's segmenter: PostTweetModal.textInputHandler.              *)
(*                                                                         *)
(* A text is a sequence of characters: "a" for an ordinary character, "."  *)
(* for a sentence-terminal one (. ? !), " " for white space inside a line, *)
(* and "\n" for the line break.                                            *)

MAX_TWEET_LENGTH == 280

Rep(c, n) == [i \in 1 .. n |-> c]

RECURSIVE Join(_, _)
Join(pieces, sep) ==
  IF Len(pieces) = 0 THEN << >>
  ELSE IF Len(pieces) = 1 THEN pieces[1]
  ELSE pieces[1] \o sep \o Join(Tail(pieces), sep)

\* The pieces of s from position from on, cut at the separators that start at
\* the positions seps and are width long: String.prototype.split.
RECURSIVE SplitAt(_, _, _, _)
SplitAt(s, from, seps, width) ==
  IF seps = {} THEN << SubSeq(s, from, Len(s)) >>
  ELSE LET m == CHOOSE i \in seps : \A j \in seps : i <= j
       IN  << SubSeq(s, from, m - 1) >> \o SplitAt(s, m + width, seps \ { m }, width)

\* str.split("\n")
SplitLines(str) == SplitAt(str, 1, { i \in 1 .. Len(str) : str[i] = "\n" }, 1)

\* chunk.split(/[.?!]\s/): the two matched characters are dropped.
SplitSentences(chunk) ==
  SplitAt(chunk, 1,
          { i \in 1 .. (Len(chunk) - 1) : chunk[i] = "." /\ chunk[i + 1] \in { " ", "\n" } },
          2)

RangeError == [status |-> "RangeError", chunks |-> << >>]

\* The line break the accumulating branch appends after a chunk (line 150)
LineBreakAfter(j, n) == IF j = n THEN << >> ELSE << "\n" >>

\* The test of the accumulating branch with the budget one too wide
FitsBudget(joinedLength, chunkLength) == joinedLength + chunkLength <= MAX_TWEET_LENGTH

\* The test of the accumulating branch (lines 145-148)
Fits(joinedLength, chunkLength) == joinedLength + chunkLength <= MAX_TWEET_LENGTH - 1

\* The whole text cut at its line breaks
WholeTextByLines(str) == SplitLines(str)

\* What textInputHandler returns with auto-split off (line 136): [str]
WholeText(str) == << str >>

\* textInputHandler(str) for an account setting autoSplit, as the depth-th
\* nested call: the forEach over the lines from line j on, joined being
\* joinedTextChunks so far (i is its last index).  A nesting deeper than the
\* engine's stack ends every call in flight with a RangeError.
RECURSIVE textInputHandler(_, _, _)
RECURSIVE ForEachChunk(_, _, _, _)
ForEachChunk(chunks, j, joined, depth) ==
  IF j > Len(chunks) THEN [status |-> "returned", chunks |-> joined]
  ELSE
    LET chunk == chunks[j]
        i == Len(joined)
    IN  IF Fits(Len(joined[i]), Len(chunk))
        THEN ForEachChunk(chunks, j + 1,
               [joined EXCEPT ![i] = @ \o chunk \o LineBreakAfter(j, Len(chunks))],
               depth)
        ELSE IF Len(chunk) > MAX_TWEET_LENGTH
        THEN LET x == Join(SplitSentences(chunk), << "\n" >>)
                 splits == textInputHandler(x, TRUE, depth + 1)
             IN  IF splits.status = "RangeError" THEN RangeError
                 ELSE ForEachChunk(chunks, j + 1, joined \o splits.chunks, depth)
        ELSE ForEachChunk(chunks, j + 1, Append(joined, chunk), depth)

textInputHandler(str, autoSplit, depth) ==
  IF depth > MaxStackDepth THEN RangeError
  ELSE IF ~autoSplit THEN [status |-> "returned", chunks |-> WholeText(str)]
  ELSE ForEachChunk(SplitLines(str), 1, << << >> >>, depth)

\* The lines the segmenter is given: around the budget, and over it with and
\* without a sentence end to split at.
LineShapes ==
  { Rep("a", 0), Rep("a", 1),
    Rep("a", MAX_TWEET_LENGTH - 1), Rep("a", MAX_TWEET_LENGTH),
    Rep("a", MAX_TWEET_LENGTH + 1), Rep("a", MAX_TWEET_LENGTH + 20),
    Rep("a", 150) \o << ".", " " >> \o Rep("a", 150),
    Rep("a", MAX_TWEET_LENGTH + 10) \o << ".", " " >> \o Rep("a", 5),
    Rep("a", 140) \o << "." >> \o Rep("a", 140) }

SegInputs ==
  { Join(ls, << "\n" >>) : ls \in UNION { [1 .. n -> LineShapes] : n \in 1 .. MaxLines } }

SegInit ==
  /\ accounts = << >>
  /\ lastUsedAccountId = NoAccount
  /\ account = [i \in AccountIds |-> NoObject]
  /\ connections = [i \in AccountIds |-> NoConnection]
  /\ currentAccountId = NoAccount
  /\ persisted = SettingsOf(<< >>, NoAccount, [i \in AccountIds |-> NoObject])
  /\ frame = [p \in Procs |-> IdleFrame]
  /\ segInput \in SegInputs
  /\ segAutoSplit \in BOOLEAN
  /\ segOutput = NoOutput
  /\ parseOutput = NoParse

\* insertTweetsFromSelectedText for a selection that is no thread: the
\* chunks are what textInputHandler makes of the selected text.
InsertTweetsFromSelectedText ==
  /\ segOutput.status = "none"
  /\ segOutput' = textInputHandler(segInput, segAutoSplit, 1)
  /\ UNCHANGED << handlerVars, segInput, segAutoSplit, parseOutput >>

SegNext == InsertTweetsFromSelectedText

SegSpec == SegInit /\ [][SegNext]_vars

----------------------------------------------------------------------------
(* The parsers of the commands and the composition of a selection:         *)
(* parseListFromText, parseThreadFromText and the strategy of              *)
(* postTweetMode.  A text is a sequence of characters.                     *)

MaxBlocks == 4          \* blocks of lines a parsed text is made of

THREAD_START == << "T", "H", "R", "E", "A", "D", " ", "S", "T", "A", "R", "T" >>
THREAD_END == << "T", "H", "R", "E", "A", "D", " ", "E", "N", "D" >>

\* "\n---\n", what separates the tweets of a thread
TweetSeparator == << "\n", "-", "-", "-", "\n" >>

\* "--nt_sep--", what joins the segments handed to the modal
NtSep == << "-", "-", "n", "t", "_", "s", "e", "p", "-", "-" >>

\* "- ", what a list item begins with
ListPrefix == << "-", " " >>

IsWhiteSpace(c) == c \in { " ", "\n" }

\* String.prototype.trim
Trim(s) ==
  LET inked == { i \in 1 .. Len(s) : ~IsWhiteSpace(s[i]) } IN
  IF inked = {} THEN << >>
  ELSE SubSeq(s, CHOOSE i \in inked : \A j \in inked : i <= j,
                 CHOOSE i \in inked : \A j \in inked : i >= j)

\* String.prototype.startsWith
StartsWith(s, prefix) ==
  Len(s) >= Len(prefix) /\ SubSeq(s, 1, Len(prefix)) = prefix

\* String.prototype.substring(n), n counted from 0
Substring(s, n) == SubSeq(s, n + 1, Len(s))

\* String.prototype.split for a separator of several characters: cut at the
\* leftmost occurrence, then go on behind it.
RECURSIVE SplitOn(_, _)
SplitOn(s, sep) ==
  LET hits == { i \in 1 .. (Len(s) - Len(sep) + 1) : SubSeq(s, i, i + Len(sep) - 1) = sep } IN
  IF hits = {} THEN << s >>
  ELSE LET m == CHOOSE i \in hits : \A j \in hits : i <= j
       IN  << SubSeq(s, 1, m - 1) >> \o SplitOn(SubSeq(s, m + Len(sep), Len(s)), sep)

\* Array.prototype.indexOf, counted from 0, -1 for an absent element
IndexOf(array, element) ==
  LET hits == { i \in 1 .. Len(array) : array[i] = element } IN
  IF hits = {} THEN -1 ELSE (CHOOSE i \in hits : \A j \in hits : i <= j) - 1

\* Array.prototype.slice(start, end), both counted from 0 and not negative
Slice(array, start, end) == SubSeq(array, start + 1, end)

\* Array.prototype.map(txt => txt.trim())
TrimAll(pieces) == [k \in 1 .. Len(pieces) |-> Trim(pieces[k])]

\* A parser threw.
ParseError == [status |-> "Error", chunks |-> << >>]

\* parseThreadFromText (lines 553-571)
parseThreadFromText(text) ==
  LET contentArray == SplitLines(text)
      threadStartIndex == IndexOf(contentArray, THREAD_START) + 1
      threadEndIndex == IndexOf(contentArray, THREAD_END)
  IN  IF threadStartIndex = 0 \/ threadEndIndex = -1 THEN ParseError
      ELSE LET content ==
                 SplitOn(Join(Slice(contentArray, threadStartIndex, threadEndIndex),
                              << "\n" >>),
                         TweetSeparator)
           IN  IF Len(content) = 1 /\ content[1] = << >> THEN ParseError
               ELSE [status |-> "returned", chunks |-> TrimAll(content)]

\* The item of a list line with its prefix left on
ItemWithPrefix(trimmedLine) == Trim(trimmedLine)

\* The item of a list line (line 596)
ItemOf(trimmedLine) == Trim(Substring(trimmedLine, 2))

\* The for-loop of parseListFromText from line k on
RECURSIVE ForEachLine(_, _, _)
ForEachLine(lines, k, tweets) ==
  IF k > Len(lines) THEN tweets
  ELSE LET trimmedLine == Trim(lines[k]) IN
       ForEachLine(lines, k + 1,
                   IF StartsWith(trimmedLine, ListPrefix)
                   THEN Append(tweets, ItemOf(trimmedLine))
                   ELSE tweets)

\* parseListFromText (lines 588-605)
parseListFromText(text) ==
  LET tweets == ForEachLine(SplitLines(text), 1, << >>) IN
  IF Len(tweets) = 0 THEN ParseError
  ELSE [status |-> "returned", chunks |-> tweets]

\* insertTweetsFromSelectedText (lines 95-105): the chunks the text areas are
\* filled with.
insertTweetsFromSelectedText(selectedText, autoSplit) ==
  IF selectedText.thread = FALSE
  THEN textInputHandler(selectedText.text, autoSplit, 1)
  ELSE [status |-> "returned", chunks |-> SplitOn(selectedText.text, NtSep)]

\* createFirstTextarea (lines 88-93): the first text area stays empty for an
\* empty text.
createFirstTextarea(selectedText, autoSplit) ==
  IF Len(selectedText.text) > 0
  THEN insertTweetsFromSelectedText(selectedText, autoSplit)
  ELSE [status |-> "returned", chunks |-> << << >> >>]

\* The test of the list strategy that takes a single item too
ListAcceptedFromOne(listTweets) == Len(listTweets) > 0

\* The test of the list strategy (line 132)
ListAccepted(listTweets) == Len(listTweets) > 1

\* postTweetMode for a selection (lines 126-153): the selection the modal is
\* opened with, and what the modal fills its text areas with.
PostTweetModeSelection(text, autoSplit) ==
  LET listTweets == parseListFromText(text)
      thread == parseThreadFromText(text)
      selection ==
        IF listTweets.status = "returned" /\ ListAccepted(listTweets.chunks)
        THEN [text |-> Join(listTweets.chunks, NtSep), thread |-> TRUE]
        ELSE IF thread.status = "returned"
        THEN [text |-> Join(thread.chunks, NtSep), thread |-> TRUE]
        ELSE [text |-> text, thread |-> FALSE]
  IN  createFirstTextarea(selection, autoSplit)

\* The blocks of lines a parsed text is made of: the sentinels, list items,
\* two tweets with their separator, and a line of white space.
Blocks ==
  { THREAD_START, THREAD_END,
    << " ", "-", " ", "a", " " >>,
    << "-", " ", "b" >>,
    << "a", "\n", "-", "-", "-", "\n", " ", "b", " " >>,
    << " " >> }

ParseInputs ==
  { Join(bs, << "\n" >>) : bs \in UNION { [1 .. n -> Blocks] : n \in 1 .. MaxBlocks } }

ParseInit ==
  /\ accounts = << >>
  /\ lastUsedAccountId = NoAccount
  /\ account = [i \in AccountIds |-> NoObject]
  /\ connections = [i \in AccountIds |-> NoConnection]
  /\ currentAccountId = NoAccount
  /\ persisted = SettingsOf(<< >>, NoAccount, [i \in AccountIds |-> NoObject])
  /\ frame = [p \in Procs |-> IdleFrame]
  /\ segInput \in ParseInputs
  /\ segAutoSplit \in BOOLEAN
  /\ segOutput = NoOutput
  /\ parseOutput = NoParse

\* What a parser or the composition made of a text, under the name of the
\* operation.
Parsed(op, output) == [op |-> op, status |-> output.status, chunks |-> output.chunks]

ParseListFromText ==
  /\ parseOutput.op = "none"
  /\ parseOutput' = Parsed("parseList", parseListFromText(segInput))
  /\ UNCHANGED << handlerVars, segInput, segAutoSplit, segOutput >>

ParseThreadFromText ==
  /\ parseOutput.op = "none"
  /\ parseOutput' = Parsed("parseThread", parseThreadFromText(segInput))
  /\ UNCHANGED << handlerVars, segInput, segAutoSplit, segOutput >>

\* The command "Post Tweet" with the text selected, up to the open modal.
PostTweetMode ==
  /\ parseOutput.op = "none"
  /\ parseOutput' = Parsed("postTweetMode", PostTweetModeSelection(segInput, segAutoSplit))
  /\ UNCHANGED << handlerVars, segInput, segAutoSplit, segOutput >>

ParseNext ==
  \/ ParseListFromText
  \/ ParseThreadFromText
  \/ PostTweetMode

ParseSpec == ParseInit /\ [][ParseNext]_vars

----------------------------------------------------------------------------
(* The commands that post (the composer's Post button behind postTweetMode, *)
(* postThreadInFile, postSelectedTweet), connectToAccountById and          *)
(* deleteTweets.                                                           *)

MaxPosts == 2           \* posted tweets one deleteTweets call is given

\* The account whose settings the composer reads: getSelectedAccount
getSelectedAccount(selectedAccountId) ==
  IF selectedAccountId = NoAccount THEN NoAccount ELSE getAccountById(selectedAccountId)

\* currentAccount?.autoSplitTweets ?? true
autoSplitEnabled(selectedAccountId) ==
  LET currentAccount == getSelectedAccount(selectedAccountId) IN
  IF currentAccount = NoAccount THEN TRUE ELSE account[currentAccount].autoSplitTweets

\* The answer of getThreadContent that is null
NoContent == [status |-> "null", chunks |-> << >>]

\* getThreadContent (lines 431-456) over the values of the text areas
getThreadContent(textAreas, selectedAccountId) ==
  IF autoSplitEnabled(selectedAccountId)
  THEN IF \E k \in 1 .. Len(textAreas) :
            Len(textAreas[k]) > MAX_TWEET_LENGTH \/ textAreas[k] = << >>
       THEN NoContent
       ELSE [status |-> "returned", chunks |-> textAreas]
  ELSE IF \E k \in 1 .. Len(textAreas) : textAreas[k] = << >>
       THEN NoContent
       ELSE [status |-> "returned", chunks |-> textAreas]

\* What the text areas of the composer hold when Post is clicked: a tweet at
\* the budget, one over it, a short one before one over it, and an empty one.
TextAreaValues ==
  { << Rep("a", MAX_TWEET_LENGTH) >>,
    << Rep("a", MAX_TWEET_LENGTH + 1) >>,
    << Rep("a", 1), Rep("a", MAX_TWEET_LENGTH + 1) >>,
    << << >> >> }

\* The files postThreadInFile is run on: a thread with a tweet at the budget,
\* with one over it, and a file without a thread.
FileContents ==
  { Join(<< THREAD_START, Rep("a", MAX_TWEET_LENGTH), THREAD_END >>, << "\n" >>),
    Join(<< THREAD_START, Rep("a", 1) \o TweetSeparator \o Rep("a", MAX_TWEET_LENGTH + 1),
            THREAD_END >>, << "\n" >>),
    Rep("a", 1) }

\* The selections postSelectedTweet is run on
Selections == { Rep("a", MAX_TWEET_LENGTH), Rep("a", MAX_TWEET_LENGTH + 1) }

\* The results of earlier posts handed to deleteTweets, by id
PostedTweets == { [i \in 1 .. n |-> i] : n \in 0 .. MaxPosts }

\* The toggle "Auto-split tweets" of the settings tab
SetAutoSplit(a, value) ==
  /\ AllIdle
  /\ InList(accounts, a)
  /\ account[a].autoSplitTweets # value
  /\ account' = [account EXCEPT ![a].autoSplitTweets = value]
  /\ persisted' = SettingsOf(accounts, lastUsedAccountId, account')
  /\ UNCHANGED << accounts, lastUsedAccountId, connections, currentAccountId,
                  frame, segVars >>

\* A command calls connectToAccountById(id) for an account it has looked up
\* (lines 138-145), up to the await of connectToAccount.
CommandConnect(p, f, id) ==
  ConnectEnter(p, [f EXCEPT !.accountId = id], id)

\* The Post button of the composer and what postTweetMode does with the
\* resolved Tweet, up to its first await (part_003 postTweets, main 165-176).
PostTweets(p, textAreas, selectedAccountId) ==
  /\ AllIdle
  /\ IF Len(accounts) = 0 THEN selectedAccountId = NoAccount
     ELSE InList(accounts, selectedAccountId)
  /\ LET threadContent == getThreadContent(textAreas, selectedAccountId)
         f == [IdleFrame EXCEPT !.op = "postThread", !.cmd = "postTweetMode",
                                !.accountId = selectedAccountId,
                                !.threadContent = threadContent.chunks]
     IN  /\ threadContent.status = "returned"
         /\ IF selectedAccountId # NoAccount
            THEN CommandConnect(p, f, selectedAccountId)
            ELSE postThread(p, f, TRUE)
  /\ UNCHANGED << accounts, lastUsedAccountId, connections, currentAccountId, segVars >>

\* postThreadInFile up to its first await in the handler (lines 218-238)
PostThreadInFile(p, content) ==
  /\ AllIdle
  /\ LET threadContent == parseThreadFromText(content)
         currentAccount == getCurrentAccount
         f == [IdleFrame EXCEPT !.op = "postThread", !.cmd = "postThreadInFile",
                                !.threadContent = threadContent.chunks]
     IN  IF threadContent.status = "Error"
         THEN /\ frame' = [frame EXCEPT ![p] =
                   [f EXCEPT !.pc = "done", !.result = Returned("parse", FALSE)]]
              /\ UNCHANGED << account, persisted >>
         ELSE IF currentAccount = NoAccount
         THEN /\ frame' = [frame EXCEPT ![p] =
                   [f EXCEPT !.pc = "done", !.result = Returned("noaccount", FALSE)]]
              /\ UNCHANGED << account, persisted >>
         ELSE CommandConnect(p, f, currentAccount)
  /\ UNCHANGED << accounts, lastUsedAccountId, connections, currentAccountId, segVars >>

\* postSelectedTweet up to its first await in the handler (lines 266-287)
PostSelectedTweet(p, selection) ==
  /\ AllIdle
  /\ LET currentAccount == getCurrentAccount
         f == [IdleFrame EXCEPT !.op = "postTweet", !.cmd = "postSelectedTweet",
                                !.threadContent = << selection >>]
     IN  IF currentAccount = NoAccount
         THEN /\ frame' = [frame EXCEPT ![p] =
                   [f EXCEPT !.pc = "done", !.result = Returned("noaccount", FALSE)]]
              /\ UNCHANGED << account, persisted >>
         ELSE CommandConnect(p, f, currentAccount)
  /\ UNCHANGED << accounts, lastUsedAccountId, connections, currentAccountId, segVars >>

\* connectToAccountById returns to the command: a failed connection ends it
\* with a notice, a successful one is followed by postThread or postTweet.
CommandConnected(p, found) ==
  LET f == frame[p] IN
  /\ f.pc = "save"
  /\ f.cmd # "none"
  /\ f.op # "plainConnect"
  /\ f.path = "none"
  /\ IF ~f.ret
     THEN /\ frame' = [frame EXCEPT ![p] =
               [f EXCEPT !.pc = "done", !.result = Returned("connectfailed", FALSE)]]
          /\ UNCHANGED << account, persisted >>
     ELSE IF f.op = "postTweet" THEN postTweet(p, f, found)
     ELSE postThread(p, f, found)
  /\ UNCHANGED << accounts, lastUsedAccountId, connections, currentAccountId, segVars >>

\* The callback of a post command when the handler is not connected and
\* secure mode is off (lines 46-51, 63-68, 79-84): the promise of
\* connectToTwitterWithPlainSettings is not awaited, so isConnectedToTwitter
\* is read when connectToAccount has only reached its first await, and the
\* connection goes on after the callback has ended.
CommandNotConnected(p, cmd) ==
  /\ AllIdle
  /\ ~isConnectedToTwitter
  /\ LET currentAccount == getCurrentAccount
         f == [IdleFrame EXCEPT !.op = "plainConnect", !.cmd = cmd,
                                !.notice = IF isConnectedToTwitter THEN ""
                                           ELSE "Not connected to Twitter"]
     IN  IF currentAccount = NoAccount
         THEN /\ frame' = [frame EXCEPT ![p] =
                   [f EXCEPT !.pc = "done", !.result = Returned("plainConnect", FALSE)]]
              /\ UNCHANGED << account, persisted >>
         ELSE ConnectEnter(p, f, currentAccount)
  /\ UNCHANGED << accounts, lastUsedAccountId, connections, currentAccountId, segVars >>

\* connectToAccountById(accountId) (lines 138-145) up to its await: false for
\* an id no account has.
ConnectToAccountById(p, accountId) ==
  /\ AllIdle
  /\ LET a == getAccountById(accountId)
         f == [IdleFrame EXCEPT !.op = "connectById", !.accountId = accountId]
     IN  IF a = NoAccount
         THEN /\ frame' = [frame EXCEPT ![p] =
                   [f EXCEPT !.pc = "done", !.result = Returned("connectById", FALSE)]]
              /\ UNCHANGED << account, persisted >>
         ELSE ConnectEnter(p, f, a)
  /\ UNCHANGED << accounts, lastUsedAccountId, connections, currentAccountId, segVars >>

\* connectToAccount returns to connectToAccountById, which returns its answer.
ConnectToAccountByIdReturn(p) ==
  LET f == frame[p] IN
  /\ f.pc = "save"
  /\ f.op = "connectById"
  /\ frame' = [frame EXCEPT ![p].pc = "done",
                            ![p].result = Returned("connectById", f.ret)]
  /\ UNCHANGED << accounts, lastUsedAccountId, account, connections,
                  currentAccountId, persisted, segVars >>

\* The for-loop of deleteTweets ending behind the first tweet
DeletedFirst(idx, tweets) == idx >= 1

\* The for-loop of deleteTweets has deleted the last of the tweets.
DeletedAll(idx, tweets) == idx >= Len(tweets)

\* deleteTweets(tweets, accountId) up to its first await (lines 325-338)
DeleteTweets(p, tweets, accountId) ==
  /\ AllIdle
  /\ LET connection == PostingConnection(accountId)
         f == [IdleFrame EXCEPT !.op = "deleteTweets", !.accountId = accountId,
                                !.startConn = connection, !.posts = tweets]
     IN  frame' = [frame EXCEPT ![p] =
           IF ~IsLive(connection)
           THEN [f EXCEPT !.pc = "done",
                          !.result = Thrown("notconnected", accountId, "", NoError)]
           ELSE IF Len(tweets) = 0
           THEN [f EXCEPT !.conn = connection, !.pc = "done",
                          !.result = Returned("deleted", TRUE)]
           ELSE [f EXCEPT !.conn = connection, !.pc = "delete", !.idx = 1]]
  /\ UNCHANGED << accounts, lastUsedAccountId, account, connections,
                  currentAccountId, persisted, segVars >>

\* deleteTweet answers (lines 337-344): the loop goes on to the next tweet or
\* returns true; a rejection is logged and false is returned.
DeleteReturn(p, outcome) ==
  LET f == frame[p] IN
  /\ f.pc = "delete"
  /\ outcome \in { NoError } \cup Errors
  /\ frame' = [frame EXCEPT ![p] =
       LET g == [f EXCEPT !.deletes = Append(@, [id |-> f.posts[f.idx],
                                                 ok |-> outcome = NoError])]
       IN  IF outcome # NoError
           THEN [g EXCEPT !.pc = "done", !.exn = outcome,
                          !.result = Returned("deleted", FALSE)]
           ELSE IF DeletedAll(f.idx, f.posts)
           THEN [g EXCEPT !.pc = "done", !.result = Returned("deleted", TRUE)]
           ELSE [g EXCEPT !.idx = f.idx + 1]]
  /\ UNCHANGED << accounts, lastUsedAccountId, account, connections,
                  currentAccountId, persisted, segVars >>

CommandNext ==
  \/ \E a \in AccountIds : removeAccount(a)
  \/ \E a \in AccountIds, value \in BOOLEAN : SetAutoSplit(a, value)
  \/ \E p \in Procs, textAreas \in TextAreaValues, a \in AccountIds \cup { NoAccount } :
        isConnectedToTwitter /\ PostTweets(p, textAreas, a)
  \/ \E p \in Procs, content \in FileContents :
        isConnectedToTwitter /\ PostThreadInFile(p, content)
  \/ \E p \in Procs, selection \in Selections :
        isConnectedToTwitter /\ PostSelectedTweet(p, selection)
  \/ \E p \in Procs, cmd \in { "postSelectedTweet", "postThreadInFile", "postTweetMode" } :
        CommandNotConnected(p, cmd)
  \/ \E p \in Procs : PlainConnectReturn(p)
  \/ \E p \in Procs : CommandConnected(p, TRUE)
  \/ \E p \in Procs, a \in AccountIds : ConnectToAccountById(p, a)
  \/ \E p \in Procs : ConnectToAccountByIdReturn(p)
  \/ \E p \in Procs, outcome \in { NoError } \cup Errors : VerifyReturn(p, outcome)
  \/ \E p \in Procs, outcome \in { NoError } \cup Errors :
        frame[p].op = "postThread" /\ SubmitReturn(p, outcome)
  \/ \E p \in Procs, outcome \in { NoError } \cup Errors : TweetReturn(p, outcome)
  \/ \E p \in Procs : PostThreadRethrow(p)
  \/ \E p \in Procs, tweets \in PostedTweets, a \in AccountIds \cup { NoAccount } :
        DeleteTweets(p, tweets, a)
  \/ \E p \in Procs, outcome \in { NoError } \cup Errors : DeleteReturn(p, outcome)
  \/ \E p \in Procs : Finish(p)

\* The commands run on the handler with every account added and connected;
\* their callbacks call them when the handler is connected (lines 39-40,
\* 58-59, 76), secure mode being off.
CommandSpec == MediaInit /\ [][CommandNext]_vars

----------------------------------------------------------------------------
(* postTweet against postThread: from a state the handler has reached, a   *)
(* postTweet call is run to its end, the state it started from is put back, *)
(* and postThread is run on the one text with the same answers of the      *)
(* collaborators.                                                          *)

\* What the collaborators answer to a call and to its twin: me(), tweet() or
\* tweetThread(), uploadMedia, readBinary and getFirstLinkpathDest.
Scripts ==
  [verify : { NoError } \cup Errors, submit : { NoError } \cup Errors,
   upload : { "id", "null", "throw" }, read : { NoError } \cup ReadErrors,
   found : BOOLEAN]

\* The texts posted: without and with a media reference
TweetTexts == { << "n" >>, << "n", "!", "[[", "n", ".png", "]]" >> }

\* The settings and the handler's connections
HandlerState ==
  [accounts |-> accounts, lastUsedAccountId |-> lastUsedAccountId,
   account |-> account, connections |-> connections,
   currentAccountId |-> currentAccountId, persisted |-> persisted]

\* What a finished call has done and how it ended, and the state it left
Observed(f) ==
  [state |-> HandlerState,
   verifies |-> f.verifies, verified |-> f.verified, uploads |-> f.uploads,
   saves |-> f.saves, warnings |-> f.warnings, path |-> f.path,
   submits |-> f.submits, submitted |-> f.submitted, result |-> f.result]

\* The handler before the two calls: accounts are removed, credentials are
\* edited and the plugin is loaded again.
BeforeTwins == segOutput.status = "none"

\* postTweet(tweetText, accountId) is called; the state it starts from and the
\* answers it will get are kept.
TwinPostTweet(p, script, tweetText, accountId) ==
  /\ AllIdle
  /\ BeforeTwins
  /\ segInput' = script
  /\ segOutput' = [status |-> "postTweet", chunks |-> << >>, start |-> HandlerState,
                   tweetText |-> tweetText, accountId |-> accountId,
                   postTweet |-> Observed(IdleFrame)]
  /\ postTweet(p, [IdleFrame EXCEPT !.op = "postTweet", !.accountId = accountId,
                                    !.threadContent = << tweetText >>],
               script.found)
  /\ UNCHANGED << accounts, lastUsedAccountId, connections, currentAccountId,
                  segAutoSplit, parseOutput >>

\* postTweet has ended: what it did is kept and the state it started from is
\* put back.
TwinRestore(p) ==
  /\ segOutput.status = "postTweet"
  /\ frame[p].pc = "done"
  /\ segOutput' = [segOutput EXCEPT !.status = "restored",
                                    !.postTweet = Observed(frame[p])]
  /\ accounts' = segOutput.start.accounts
  /\ lastUsedAccountId' = segOutput.start.lastUsedAccountId
  /\ account' = segOutput.start.account
  /\ connections' = segOutput.start.connections
  /\ currentAccountId' = segOutput.start.currentAccountId
  /\ persisted' = segOutput.start.persisted
  /\ frame' = [frame EXCEPT ![p] = IdleFrame]
  /\ UNCHANGED << segInput, segAutoSplit, parseOutput >>

\* postThread([tweetText], accountId) is called from the state put back.
TwinPostThread(p) ==
  /\ segOutput.status = "restored"
  /\ segOutput' = [segOutput EXCEPT !.status = "postThread"]
  /\ postThread(p, [IdleFrame EXCEPT !.op = "postThread",
                                     !.accountId = segOutput.accountId,
                                     !.threadContent = << segOutput.tweetText >>],
                segInput.found)
  /\ UNCHANGED << accounts, lastUsedAccountId, connections, currentAccountId,
                  segInput, segAutoSplit, parseOutput >>

\* The answers me() can give: any before the twins, the script's for them
TwinVerifyOutcomes ==
  IF BeforeTwins THEN { NoError } \cup Errors ELSE { segInput.verify }

TwinNext ==
  \/ \E a \in AccountIds : BeforeTwins /\ removeAccount(a)
  \/ \E a \in AccountIds, creds \in { "valid", "blank" } :
        BeforeTwins /\ EditCredential(a, creds)
  \/ \E p \in Procs : BeforeTwins /\ Onload(p)
  \/ \E p \in Procs : PlainConnectReturn(p)
  \/ \E p \in Procs : BeforeTwins /\ Finish(p)
  \/ \E p \in Procs, outcome \in TwinVerifyOutcomes : VerifyReturn(p, outcome)
  \/ \E p \in Procs, script \in Scripts, tweetText \in TweetTexts,
        a \in { 1, NoAccount } : TwinPostTweet(p, script, tweetText, a)
  \/ \E p \in Procs : TwinRestore(p)
  \/ \E p \in Procs : TwinPostThread(p)
  \/ \E p \in Procs : PostTweetReconnected(p, segInput.found)
  \/ \E p \in Procs : PostThreadReconnected(p, segInput.found)
  \/ \E p \in Procs : ReadReturn(p, segInput.read)
  \/ \E p \in Procs : UploadReturn(p, segInput.upload, segInput.found)
  \/ \E p \in Procs : TweetReturn(p, segInput.submit)
  \/ \E p \in Procs : frame[p].op = "postThread" /\ SubmitReturn(p, segInput.submit)
  \/ \E p \in Procs : PostThreadRethrow(p)

TwinSpec == MediaInit /\ [][TwinNext]_vars

----------------------------------------------------------------------------
(* switchToAccount, and the handler with every operation: the accounts,    *)
(* connectToAccount, postThread, postTweet and switchToAccount, which an   *)
(* event of the host may call while a posting call is suspended.           *)

\* switchToAccount taking any id
SwitchedAccountIdAlways(accountId) == accountId

\* The current account id switchToAccount(accountId) leaves (lines 148-152)
SwitchedAccountId(accountId) ==
  IF connections[accountId].present THEN accountId ELSE currentAccountId

\* switchToAccount(accountId), called when nothing else runs: what it returns
\* is kept.
SwitchToAccount(p, accountId) ==
  /\ AllIdle
  /\ currentAccountId' = SwitchedAccountId(accountId)
  /\ frame' = [frame EXCEPT ![p] =
       [IdleFrame EXCEPT !.op = "switchToAccount", !.pc = "done",
                         !.accountId = accountId,
                         !.result = Returned("switchToAccount",
                                             connections[accountId].present)]]
  /\ UNCHANGED << accounts, lastUsedAccountId, account, connections, persisted, segVars >>

\* switchToAccount(accountId), called by an event of the host while a
\* posting call is suspended at an await
SwitchWhileSuspended(p, accountId) ==
  /\ frame[p].op \in { "postThread", "postTweet" }
  /\ frame[p].pc \in { "verify", "save", "submit", "postsave" }
  /\ currentAccountId # SwitchedAccountId(accountId)
  /\ currentAccountId' = SwitchedAccountId(accountId)
  /\ UNCHANGED << accounts, lastUsedAccountId, account, connections, persisted,
                  frame, segVars >>

\* postTweet(tweetText, accountId), called when nothing else runs
PostTweet(p, tweetText, accountId, found) ==
  /\ AllIdle
  /\ postTweet(p, [IdleFrame EXCEPT !.op = "postTweet", !.accountId = accountId,
                                    !.threadContent = << tweetText >>],
               found)
  /\ UNCHANGED << accounts, lastUsedAccountId, connections, currentAccountId, segVars >>

SwitchNext ==
  \/ \E p \in Procs : AddAccountSubmit(p, "valid")
  \/ \E p \in Procs : AddAccountReturn(p)
  \/ \E a \in AccountIds : removeAccount(a)
  \/ \E a \in AccountIds, creds \in { "valid", "blank" } : EditCredential(a, creds)
  \/ \E p \in Procs : Onload(p)
  \/ \E p \in Procs : PlainConnectReturn(p)
  \/ \E p \in Procs, a \in AccountIds : TestConnection(p, a)
  \/ \E p \in Procs : TestConnectionReturn(p)
  \/ \E p \in Procs, outcome \in { NoError } \cup Errors : VerifyReturn(p, outcome)
  \/ \E p \in Procs, a \in AccountIds : SwitchToAccount(p, a)
  \/ \E p \in Procs, a \in AccountIds : SwitchWhileSuspended(p, a)
  \/ \E p \in Procs, t \in PlainThreads, a \in AccountIds \cup { NoAccount } :
        PostThread(p, t, a, TRUE)
  \/ \E p \in Procs, t \in PlainThreads, a \in AccountIds \cup { NoAccount } :
        PostTweet(p, t[1], a, TRUE)
  \/ \E p \in Procs : PostThreadReconnected(p, TRUE)
  \/ \E p \in Procs : PostTweetReconnected(p, TRUE)
  \/ \E p \in Procs, outcome \in { NoError } \cup Errors :
        frame[p].op = "postThread" /\ SubmitReturn(p, outcome)
  \/ \E p \in Procs, outcome \in { NoError } \cup Errors : TweetReturn(p, outcome)
  \/ \E p \in Procs : PostThreadRethrow(p)
  \/ \E p \in Procs : Finish(p)

SwitchSpec == Init /\ [][SwitchNext]_vars

----------------------------------------------------------------------------
(* Properties of the connection manager and of postThread: C1 under         *)
(* MediaSpec, C2 to C6 under Spec.                                         *)

PostThreadFrame(p) == frame[p].op = "postThread" /\ frame[p].pc # "idle"

PostThreadDone(p) == frame[p].op = "postThread" /\ frame[p].pc = "done"

\* connectToAccount is at its return: every effect is made, saveSettings was
\* called, and ret is the value the caller gets.
ConnectReturns(p) == frame[p].pc = "save"

\* The submission of a finished postThread call was rejected.
SubmitRejected(p) ==
  /\ PostThreadDone(p)
  /\ frame[p].submits = 1
  /\ frame[p].result.status = "thrown"
  /\ frame[p].result.kind = "posting"

\* C1: a postThread call that found no live cached connection and whose
\* reconnect failed at the identity verification throws the reconnect error
\* that names the account and the error just captured on it, and has called
\* neither tweetThread nor uploadMedia.
C1_FailedReconnectPostsNothing ==
  \A p \in Procs :
    ( /\ PostThreadDone(p)
      /\ ~(frame[p].startConn.present /\ frame[p].startConn.isConnected)
      /\ frame[p].verified = "failed" )
    => /\ frame[p].result.status = "thrown"
       /\ frame[p].result.kind = "reconnect"
       /\ frame[p].result.account = frame[p].target
       /\ frame[p].result.msg = account[frame[p].target].lastError
       /\ frame[p].result.msg = extractErrorMessage(frame[p].exn)
       /\ frame[p].submits = 0
       /\ frame[p].uploads = << >>
       /\ frame[p].submitted = << >>

\* A postThread call without a cached record, for a thread that begins with
\* a media reference, has thrown the reconnect error.
C1_Witness ==
  \E p \in Procs :
    /\ PostThreadDone(p)
    /\ ~frame[p].startConn.present
    /\ frame[p].verified = "failed"
    /\ frame[p].result.kind = "reconnect"
    /\ Len(frame[p].threadContent) >= 1
    /\ IMAGE_REGEX_test(frame[p].threadContent[1])

\* C2: whenever tweetThread rejects, on the live path and on the path that
\* has just reconnected, the account of the call is marked failed with the
\* error of the rejection, that is saved, and the rejection is thrown again.
C2_RejectedSubmitMarksAccountFailed ==
  \A p \in Procs :
    SubmitRejected(p) =>
      LET a == PostingAccount(frame[p].accountId) IN
      a # NoAccount =>
        /\ account[a].connectionStatus = "failed"
        /\ account[a].lastError = extractErrorMessage(frame[p].result.exn)
        /\ persisted.objects[a] = account[a]
        /\ frame[p].result.exn \in Errors

\* C3: at the return of connectToAccount the map has a record for the
\* account, and its isConnected is the value returned.
C3_ConnectLeavesMatchingRecord ==
  \A p \in Procs :
    ConnectReturns(p) =>
      /\ connections[frame[p].target].present
      /\ connections[frame[p].target].isConnected = frame[p].ret

\* C4: connectToAccount returns true exactly when me() succeeded, then with
\* the account connected and its lastError cleared; otherwise it returns
\* false with the account failed and lastError taken from the failure; either
\* way the settings were saved after the fields were set.
C4_ConnectOutcomeAndStatus ==
  \A p \in Procs :
    ConnectReturns(p) =>
      LET f == frame[p]
          obj == account[f.target]
      IN  /\ f.ret <=> f.verified = "ok"
          /\ f.ret => /\ obj.connectionStatus = "connected"
                      /\ obj.lastError = Undefined
          /\ ~f.ret => /\ obj.connectionStatus = "failed"
                       /\ obj.lastError = extractErrorMessage(f.exn)
                       /\ obj.lastError # Undefined
          /\ f.saves >= 1
          /\ InList(accounts, f.target) => persisted.objects[f.target] = obj

\* connectToAccount returns true for an account that a failure was recorded
\* on before (the account of a reconnecting postThread).
C4_Witness ==
  \E p \in Procs :
    /\ ConnectReturns(p)
    /\ frame[p].ret
    /\ frame[p].op = "postThread"
    /\ frame[p].startConn.present
    /\ InList(accounts, frame[p].target)

\* C5: once postThread has thrown because tweetThread rejected, the cached
\* record of the call's account is no longer connected (so that the next
\* postThread verifies again).
C5_RejectedSubmitInvalidatesConnection ==
  \A p \in Procs :
    SubmitRejected(p) => ~IsLive(PostingConnection(frame[p].accountId))

\* C6 as claimed: one postThread call verifies exactly once when the cached
\* record is absent or not connected, and never otherwise.
C6_VerifiesOnceUnlessLive ==
  \A p \in Procs :
    PostThreadDone(p) =>
      frame[p].verifies =
        (IF frame[p].startConn.present /\ frame[p].startConn.isConnected THEN 0 ELSE 1)

\* C6 as amended: one postThread call verifies at most once; exactly once
\* when the cached record is absent or not connected, an account is found for
\* the call and a client can be built from its credentials, and never
\* otherwise; a failed verification ends the call.
C6_VerifiesOnceWhenItCanReconnect ==
  \A p \in Procs :
    PostThreadFrame(p) =>
      LET f == frame[p]
          a == PostingAccount(f.accountId)
          live == f.startConn.present /\ f.startConn.isConnected
      IN  /\ f.verifies =
               (IF ~live /\ a # NoAccount /\ account[a].creds # "blank" THEN 1 ELSE 0)
          /\ (f.verified = "failed" /\ f.pc # "save") =>
               f.pc = "done" /\ f.result.status = "thrown"

\* A postThread call found a cached record that is not connected, verified
\* once without success and has ended.
C6_Witness ==
  \E p \in Procs :
    /\ PostThreadDone(p)
    /\ frame[p].startConn.present
    /\ ~frame[p].startConn.isConnected
    /\ frame[p].verifies = 1
    /\ frame[p].verified = "failed"

----------------------------------------------------------------------------
(* Properties of media resolution and of the submitted payloads, under     *)
(* MediaSpec.                                                              *)

\* A text with every media reference cut out, leftmost first.
RECURSIVE StripAll(_)
StripAll(text) ==
  IF IMAGE_REGEX_test(text) THEN StripAll(IMAGE_REGEX_replace(text)) ELSE text

\* The number of media references that are cut out of a text.
RECURSIVE RefCount(_)
RefCount(text) ==
  IF IMAGE_REGEX_test(text) THEN 1 + RefCount(IMAGE_REGEX_replace(text)) ELSE 0

\* The uploads of a call that are for segment i, in the order they were made.
UploadsOf(uploads, i) ==
  LET ForSegment(u) == u.seg = i IN SelectSeq(uploads, ForSegment)

\* The ids the uploads for segment i gave, in order.
IdsOf(uploads, i) ==
  LET GaveId(u) == u.seg = i /\ u.id > NullId
      given == SelectSeq(uploads, GaveId)
  IN  [k \in 1 .. Len(given) |-> given[k].id]

\* The number of uploads for segment i that gave no id.
NullCount(uploads, i) ==
  LET GaveNone(u) == u.seg = i /\ u.id = NullId IN Len(SelectSeq(uploads, GaveNone))

\* C7: the payload list handed to tweetThread has one payload per segment,
\* payload i being the text of segment i without its media references and
\* the ids uploaded for segment i, in order; an upload for a later segment
\* starts only after every upload for the earlier ones has answered; and
\* tweetThread is called once, after the last segment is resolved.
C7_PayloadsFollowSegments ==
  \A p \in Procs :
    PostThreadFrame(p) =>
      LET f == frame[p] IN
      /\ f.submits <= 1
      /\ \A k \in 1 .. (Len(f.uploads) - 1) :
            /\ f.uploads[k].id # Pending
            /\ f.uploads[k].seg <= f.uploads[k + 1].seg
      /\ f.submits = 1 =>
            /\ Len(f.submitted) = Len(f.threadContent)
            /\ \A i \in 1 .. Len(f.submitted) :
                  /\ f.submitted[i].text = StripAll(f.threadContent[i])
                  /\ f.submitted[i].media_ids = IdsOf(f.uploads, i)
            /\ \A k \in 1 .. Len(f.uploads) : f.uploads[k].id # Pending
            /\ f.idx = Len(f.threadContent) + 1

\* A thread of two segments, each with an upload that gave an id, is
\* submitted.
C7_Witness ==
  \E p \in Procs :
    /\ PostThreadFrame(p)
    /\ frame[p].submits = 1
    /\ Len(frame[p].threadContent) = 2
    /\ IdsOf(frame[p].uploads, 1) # << >>
    /\ IdsOf(frame[p].uploads, 2) # << >>

\* C8: an upload that gives no id still costs the text its reference, with a
\* warning, so that resolving a segment makes no more uploads than the
\* segment has references, and ends.
C8_NullUploadDropsReference ==
  \A p \in Procs :
    PostThreadFrame(p) =>
      LET f == frame[p] IN
      /\ \A i \in 1 .. Len(f.threadContent) :
            Len(UploadsOf(f.uploads, i)) <= RefCount(f.threadContent[i])
      /\ f.pc # "upload" =>
            f.warnings = Len(SelectSeq(f.uploads, LAMBDA u : u.id = NullId))

----------------------------------------------------------------------------
(* Properties of the segmenter, under SegSpec.                             *)

\* A line without a sentence end followed by white space
Unsplittable(line) == SplitSentences(line) = << line >>

\* C10: with autoSplit on, textInputHandler returns for every text, and a
\* text of one line over the budget that has nowhere to be split is returned
\* as the one segment it is.
C10_OversizedLineIsOneSegment ==
  (segOutput.status # "none" /\ segAutoSplit) =>
    /\ segOutput.status = "returned"
    /\ ( /\ Len(SplitLines(segInput)) = 1
         /\ Len(segInput) > MAX_TWEET_LENGTH
         /\ Unsplittable(segInput) )
       => segOutput.chunks = << segInput >>

\* The lines of a list of segments, one after the other
RECURSIVE LinesOf(_)
LinesOf(segments) ==
  IF segments = << >> THEN << >>
  ELSE SplitLines(Head(segments)) \o LinesOf(Tail(segments))

\* The lines that have a character
NonEmptyLines(lines) == SelectSeq(lines, LAMBDA l : l # << >>)

\* C11: with autoSplit on, every segment textInputHandler returns is at most
\* MAX_TWEET_LENGTH long, unless it is one line that has nowhere to be split.
C11_SegmentsWithinBudget ==
  (segOutput.status = "returned" /\ segAutoSplit) =>
    \A k \in 1 .. Len(segOutput.chunks) :
      LET segment == segOutput.chunks[k] IN
      \/ Len(segment) <= MAX_TWEET_LENGTH
      \/ Len(SplitLines(segment)) = 1 /\ Unsplittable(segment)

\* A text of several lines is returned in several segments, one of them
\* exactly MAX_TWEET_LENGTH long.
C11_Witness ==
  /\ segOutput.status = "returned"
  /\ segAutoSplit
  /\ Len(SplitLines(segInput)) > 1
  /\ Len(segOutput.chunks) > 1
  /\ \E k \in 1 .. Len(segOutput.chunks) : Len(segOutput.chunks[k]) = MAX_TWEET_LENGTH

\* C12: for a text whose lines are all shorter than MAX_TWEET_LENGTH (autoSplit
\* on), the lines of the returned segments, in order, are the lines of the
\* text: none is dropped, moved or merged with the next.  (Lines without a
\* character are left out of the comparison, a line break at the end of a
\* segment being read either way.)
C12_SegmentsKeepTheLines ==
  ( /\ segOutput.status # "none"
    /\ segAutoSplit
    /\ \A l \in 1 .. Len(SplitLines(segInput)) :
          Len(SplitLines(segInput)[l]) <= MAX_TWEET_LENGTH - 1 )
  => /\ segOutput.status = "returned"
     /\ NonEmptyLines(LinesOf(segOutput.chunks)) = NonEmptyLines(SplitLines(segInput))

----------------------------------------------------------------------------
(* Properties of the parsers and of the composition, under ParseSpec.      *)

\* The lines of a text that are list items: trimmed, they begin with "- ".
ListLines(text) ==
  SelectSeq(SplitLines(text), LAMBDA l : StartsWith(Trim(l), ListPrefix))

\* The positions of the lines of a text that are exactly the given line
LinesEqual(text, line) ==
  { i \in 1 .. Len(SplitLines(text)) : SplitLines(text)[i] = line }

\* A THREAD START line with a THREAD END line somewhere after it
HasThread(text) ==
  \E i \in LinesEqual(text, THREAD_START) : \E j \in LinesEqual(text, THREAD_END) : i < j

\* The text strictly between the first THREAD START line and the first
\* THREAD END line after it
ThreadContent(text) ==
  LET i == CHOOSE i \in LinesEqual(text, THREAD_START) :
             \A k \in LinesEqual(text, THREAD_START) : i <= k
      ends == { j \in LinesEqual(text, THREAD_END) : j > i }
      j == CHOOSE j \in ends : \A k \in ends : j <= k
  IN  Join(SubSeq(SplitLines(text), i + 1, j - 1), << "\n" >>)

C14_NoThreadNoSegments ==
  parseOutput.op = "parseThread" =>
    /\ ( \/ LinesEqual(segInput, THREAD_START) = {}
         \/ LinesEqual(segInput, THREAD_END) = {}
         \/ HasThread(segInput) /\ Trim(ThreadContent(segInput)) = << >> )
       => parseOutput.status = "Error"
    /\ parseOutput.status = "returned" =>
         /\ parseOutput.chunks # << >>
         /\ parseOutput.chunks # << << >> >>

\* C15: for a text with a THREAD START line, a THREAD END line after it and
\* content between them, parseThreadFromText returns the pieces of that
\* content cut at "\n---\n", each trimmed, in order.
C15_ThreadPiecesBetweenSentinels ==
  ( /\ parseOutput.op = "parseThread"
    /\ HasThread(segInput)
    /\ ThreadContent(segInput) # << >> )
  => /\ parseOutput.status = "returned"
     /\ parseOutput.chunks = TrimAll(SplitOn(ThreadContent(segInput), TweetSeparator))

\* C16: parseListFromText returns, in the order of the lines, the text behind
\* the "- " of every line that begins with it once trimmed, trimmed again; it
\* throws exactly when there is no such line.
C16_ListItemsInLineOrder ==
  parseOutput.op = "parseList" =>
    LET items == ListLines(segInput) IN
    /\ parseOutput.status = "Error" <=> items = << >>
    /\ parseOutput.status = "returned" =>
         /\ Len(parseOutput.chunks) = Len(items)
         /\ \A k \in 1 .. Len(items) :
              parseOutput.chunks[k] =
                Trim(SubSeq(Trim(items[k]), Len(ListPrefix) + 1, Len(Trim(items[k]))))

\* The items a and b of two list lines are returned in their order.
C16_Witness ==
  /\ parseOutput.op = "parseList"
  /\ parseOutput.status = "returned"
  /\ Len(parseOutput.chunks) >= 2
  /\ parseOutput.chunks[1] = << "a" >>
  /\ parseOutput.chunks[2] = << "b" >>

----------------------------------------------------------------------------
(* Properties of the commands, of connectToAccountById and of deleteTweets: *)
(* C17 to C20 under CommandSpec.                                           *)

\* The account a call posts for has auto-split enabled.
PostsWithAutoSplit(f) ==
  LET a == PostingAccount(f.accountId) IN
  a # NoAccount /\ account[a].autoSplitTweets

\* Every payload handed to the posting service is within the budget.
SubmittedWithinBudget(f) ==
  \A k \in 1 .. Len(f.submitted) : Len(f.submitted[k].text) <= MAX_TWEET_LENGTH

\* C17: every segment submitted to the posting service for an account whose
\* auto-split setting is enabled has at most 280 characters, whichever
\* command produced the segments: the composer, postSelectedTweet or
\* postThreadInFile.
C17_SubmittedSegmentsWithinBudget ==
  \A p \in Procs :
    LET f == frame[p] IN
    (f.cmd # "none" /\ f.submits > 0 /\ PostsWithAutoSplit(f)) => SubmittedWithinBudget(f)

\* connectToAccountById has returned for an id no account has.
ConnectedByMissingId(f) ==
  f.op = "connectById" /\ f.pc = "done" /\ getAccountById(f.accountId) = NoAccount

\* C18: connectToAccountById for an id no account has ends with an error,
\* an outcome a failed verification does not have, and it has made no
\* verification call and saved no account status.
C18_MissingAccountIsAnError ==
  \A p \in Procs :
    LET f == frame[p] IN
    ConnectedByMissingId(f) =>
      /\ f.result.status = "thrown"
      /\ f.verifies = 0
      /\ f.saves = 0
      /\ f.client = NoClient

\* deleteTweets has ended, having found the connection of an existing
\* account absent or not connected.
DeletedWithoutLiveConnection(f) ==
  /\ f.op = "deleteTweets"
  /\ f.pc = "done"
  /\ ~(f.startConn.present /\ f.startConn.isConnected)
  /\ PostingAccount(f.accountId) # NoAccount

\* C19: deleteTweets treats a connection that is absent or not connected as
\* postThread does: it makes one attempt to reconnect the account, and ends
\* with the connection error only when that attempt has failed.
C19_DeleteReconnectsLikePosting ==
  \A p \in Procs :
    LET f == frame[p] IN
    DeletedWithoutLiveConnection(f) =>
      /\ f.verifies = 1
      /\ f.result.status = "thrown" => f.verified = "failed"

\* deleteTweets has ended, having found a live connection.
DeletedOverLiveConnection(f) ==
  f.op = "deleteTweets" /\ f.pc = "done" /\ f.conn.present /\ f.conn.isConnected

\* Every deleteTweet call of the frame was answered without a rejection.
AllDeleted(f) == \A k \in 1 .. Len(f.deletes) : f.deletes[k].ok

\* The tweets the service has deleted for the frame
DeletedIds(f) == { f.deletes[k].id : k \in { j \in 1 .. Len(f.deletes) : f.deletes[j].ok } }

\* C20, as stated: over a live connection deleteTweets issues a deleteTweet
\* call for each of the tweets, returns true exactly when every call
\* succeeded, and returns false without throwing when one failed, the
\* tweets deleted before staying deleted.
C20_DeletesEveryPost ==
  \A p \in Procs :
    LET f == frame[p] IN
    DeletedOverLiveConnection(f) =>
      /\ Len(f.deletes) = Len(f.posts)
      /\ \A k \in 1 .. Len(f.deletes) : f.deletes[k].id = f.posts[k]
      /\ f.result.status = "returned"
      /\ f.result.value = AllDeleted(f)

\* C20: over a live connection deleteTweets issues the deleteTweet calls in
\* the order of the tweets and stops at the first that fails; it returns
\* true exactly when a call was issued for every tweet and each succeeded,
\* and false, without throwing, when a call failed; the tweets before the
\* failed one are deleted, the ones after it are not asked for.
C20_DeletesUntilFirstFailure ==
  \A p \in Procs :
    LET f == frame[p]
        n == Len(f.deletes)
    IN
    DeletedOverLiveConnection(f) =>
      /\ n <= Len(f.posts)
      /\ \A k \in 1 .. n : f.deletes[k].id = f.posts[k]
      /\ \A k \in 1 .. (n - 1) : f.deletes[k].ok
      /\ f.result.status = "returned"
      /\ f.result.value = (n = Len(f.posts) /\ AllDeleted(f))
      /\ ~f.result.value => (n >= 1 /\ ~f.deletes[n].ok)
      /\ DeletedIds(f) = { f.posts[k] : k \in 1 .. (IF f.result.value THEN n ELSE n - 1) }

\* A deleteTweets call over a live connection whose second deleteTweet was
\* rejected after the first had succeeded: false is returned.
C20_Witness ==
  \E p \in Procs :
    LET f == frame[p] IN
    /\ DeletedOverLiveConnection(f)
    /\ Len(f.posts) = 2
    /\ Len(f.deletes) = 2
    /\ f.deletes[1].ok
    /\ ~f.deletes[2].ok
    /\ f.result = Returned("deleted", FALSE)

----------------------------------------------------------------------------
(* Properties of postTweet, switchToAccount and the account status.        *)

\* postThread has ended on the text postTweet was run on before.
TwinsDone(p) == segOutput.status = "postThread" /\ frame[p].pc = "done"

\* C21: postTweet(text, accountId) and postThread([text], accountId), started
\* in the same state and given the same answers by the collaborators, make
\* the same verification and uploadMedia calls, leave the same connections,
\* current account and account objects, save as often, and end alike:
\* both return, or both throw the same error.
C21_PostTweetIsPostThreadOfOne ==
  \A p \in Procs : TwinsDone(p) => Observed(frame[p]) = segOutput.postTweet

\* Both calls found a live connection and had their submission rejected:
\* both marked the account failed and threw.
C21_Witness ==
  \E p \in Procs :
    /\ TwinsDone(p)
    /\ frame[p].path = "live"
    /\ frame[p].result.status = "thrown"
    /\ frame[p].result.kind = "posting"
    /\ segOutput.postTweet.result.status = "thrown"
    /\ account[1].connectionStatus = "failed"
    /\ segOutput.postTweet.state.account[1].connectionStatus = "failed"

\* C23: textInputHandler fails with an error whenever its segment list would
\* be the single empty string, as for the empty text; it never returns the
\* list of the empty string alone.
C23_EmptyInputIsAnError ==
  /\ segOutput.status = "returned" => segOutput.chunks # << << >> >>
  /\ segInput = << >> => segOutput.status # "returned"

\* C24: with auto-split off textInputHandler returns the one-element list of
\* the text it was given, whatever its length and its lines.
C24_AutoSplitOffKeepsTheText ==
  (~segAutoSplit /\ segOutput.status # "none") =>
    /\ segOutput.status = "returned"
    /\ segOutput.chunks = << segInput >>

\* A text of several lines, one of them over the budget, is returned whole.
C24_Witness ==
  /\ ~segAutoSplit
  /\ segOutput.status = "returned"
  /\ Len(SplitLines(segInput)) > 1
  /\ \E k \in 1 .. Len(SplitLines(segInput)) : Len(SplitLines(segInput)[k]) > MAX_TWEET_LENGTH
  /\ segOutput.chunks = << segInput >>

\* C25: a post command invoked while the handler is not connected, in plain
\* mode, for an account whose reconnect succeeds, waits for the reconnect
\* and then posts; 'Not connected to Twitter' is reported only when the
\* reconnect has failed.
C25_CommandWaitsForReconnect ==
  \A p \in Procs :
    LET f == frame[p] IN
    (f.op = "plainConnect" /\ f.cmd # "none" /\ f.pc = "done" /\ f.ret) =>
      /\ f.notice = ""
      /\ f.submits > 0

\* The account was removed from the settings.
Removed(a) == a # NoAccount /\ ~InList(accounts, a) /\ account[a].creds = "dropped"

\* C26: once removeAccount has taken an account out of the settings, no
\* postThread call submits through the session made for that account, and
\* the handler does not report itself connected through that account's
\* cached connection.
C26_RemovedAccountIsDisconnected ==
  /\ \A p \in Procs :
       (frame[p].op = "postThread" /\ frame[p].submits > 0) =>
         ~Removed(frame[p].conn.accountId)
  /\ isConnectedToTwitter => ~Removed(currentAccountId)

\* C30: from the default settings on, whatever accounts are added and
\* removed and whichever is made the last used one, lastUsedAccountId is the
\* id of a listed account while the list is not empty and is empty when the
\* list is; so getCurrentAccount is null only when there is no account.
C30_LastUsedIsListed ==
  /\ Len(accounts) > 0 => InList(accounts, lastUsedAccountId)
  /\ Len(accounts) = 0 => lastUsedAccountId = NoAccount
  /\ getCurrentAccount = NoAccount <=> Len(accounts) = 0

\* The first account, the last used one, was removed: the account that is
\* left has become the last used one.
C30_Witness ==
  /\ account[1].creds = "dropped"
  /\ accounts = << 2 >>
  /\ lastUsedAccountId = 2
  /\ getCurrentAccount = 2

----------------------------------------------------------------------------
(* Properties of switchToAccount, of the current account id and of the     *)
(* account status: C22 and C27 to C29 under SwitchSpec.                    *)

\* The step is a switchToAccount call of caller p.
SwitchStep(p) == frame[p].pc = "idle" /\ frame'[p].op = "switchToAccount"

\* C22: switchToAccount(id) makes no verification call and leaves every
\* connection record and every account object as it is; it makes id the
\* current account and returns true when a record is cached for id, and
\* returns false and changes nothing when none is.
C22_SwitchOnlyMovesTheCurrentId ==
  [][\A p \in Procs :
       SwitchStep(p) =>
         LET id == frame'[p].accountId IN
         /\ UNCHANGED << accounts, lastUsedAccountId, account, connections, persisted >>
         /\ frame'[p].verifies = 0
         /\ frame'[p].saves = 0
         /\ frame'[p].result.status = "returned"
         /\ IF connections[id].present
            THEN currentAccountId' = id /\ frame'[p].result.value = TRUE
            ELSE currentAccountId' = currentAccountId /\ frame'[p].result.value = FALSE]_vars

\* switchToAccount has made an account current whose cached record is not
\* connected, and the record is still not connected.
C22_Witness ==
  \E p \in Procs :
    /\ frame[p].op = "switchToAccount"
    /\ frame[p].result.value = TRUE
    /\ currentAccountId = frame[p].accountId
    /\ connections[currentAccountId].present
    /\ ~connections[currentAccountId].isConnected

\* The step is the answer of me() to connectToAccount, successful or not.
VerifiedStep(p, answer) == frame[p].pc = "verify" /\ frame'[p].verified = answer

\* The step is the construction of a new handler by onload.
NewHandlerStep(p) == frame[p].pc = "idle" /\ frame'[p].op = "plainConnect"

\* C27: a successful connectToAccount makes its account the current one,
\* whoever called it; a failed one leaves the current account id as it is;
\* and on one handler nothing but these and switchToAccount changes the
\* current account id.
C27_CurrentIdFollowsConnectAndSwitch ==
  [][\A p \in Procs :
       /\ VerifiedStep(p, "ok") => currentAccountId' = frame[p].target
       /\ VerifiedStep(p, "failed") => currentAccountId' = currentAccountId
       /\ currentAccountId' # currentAccountId =>
            \/ VerifiedStep(p, "ok")
            \/ SwitchStep(p)
            \/ /\ frame'[p] = frame[p]
               /\ connections[currentAccountId'].present
               /\ UNCHANGED << accounts, lastUsedAccountId, account, connections, persisted >>
            \/ NewHandlerStep(p)]_vars

\* "Test Connection" on the first account, not the current one before, has
\* made it the current one.
C27_Witness ==
  \E p \in Procs :
    /\ frame[p].op = "connect"
    /\ frame[p].verified = "ok"
    /\ frame[p].target = 1
    /\ currentAccountId = 1
    /\ connections[2].present

\* The account a postThread call is for: the one of its accountId, or for a
\* call without one the current account it found live or the account it
\* has reconnected.
TargetOf(f) ==
  IF f.accountId # NoAccount THEN f.accountId
  ELSE IF f.path = "live" THEN f.startConn.accountId
  ELSE f.target

\* C28: however switchToAccount calls fall between the awaits of a
\* postThread call, the call submits through a session made for the account
\* it was for when it was called.
C28_SubmitsThroughItsOwnAccount ==
  \A p \in Procs :
    LET f == frame[p] IN
    (f.op = "postThread" /\ f.submits > 0) =>
      /\ f.conn.accountId = TargetOf(f)
      /\ f.conn.client.owner = TargetOf(f)

\* An account object that exists: created and not removed
Exists(a) == account[a].creds \in { "valid", "blank" }

\* The step ends a verification of, or a submission for, account a.
CompletesOn(p, a) ==
  \/ frame[p].pc = "verify" /\ frame'[p].pc = "save" /\ frame[p].target = a
  \/ frame[p].pc # "verify" /\ frame'[p].pc = "save" /\ frame'[p].target = a
  \/ frame[p].pc = "submit" /\ frame'[p].pc # "submit" /\ frame[p].conn.accountId = a

\* C29: an account that is connected has no lastError, an account that is
\* connected or failed has the time of its last test, and an account is
\* untested only as long as no verification and no submission has ended for
\* it.
C29_StatusFieldsAgree ==
  /\ [](\A a \in AccountIds :
          Exists(a) =>
            /\ account[a].connectionStatus = "connected" => account[a].lastError = Undefined
            /\ account[a].connectionStatus \in { "connected", "failed" } =>
                 account[a].lastConnectionTest = "timestamp"
            /\ account[a].connectionStatus = "untested" =>
                 account[a].lastConnectionTest = "undefined")
  /\ [][\A a \in AccountIds : \A p \in Procs :
          /\ (Exists(a)' /\ CompletesOn(p, a)) => account'[a].connectionStatus # "untested"
          /\ (Exists(a) /\ Exists(a)' /\ account[a].connectionStatus # "untested") =>
               account'[a].connectionStatus # "untested"]_vars

\* An account whose verification failed after it had been connected: it is
\* failed, with an error and the time of the test.
C29_Witness ==
  \E a \in AccountIds :
    /\ InList(accounts, a)
    /\ account[a].connectionStatus = "failed"
    /\ account[a].lastError # Undefined
    /\ account[a].lastConnectionTest = "timestamp"
    /\ connections[a].present

====
